---- MODULE Spec2Model ----
(***************************************************************************)
(* Histograms of hyrise (AbstractHistogram<T>): pruning (does_not_contain), *)
(* cardinality estimation (estimate_cardinality) and slicing                *)
(* (slice_with_predicate) over integer and string columns.                  *)
(*                                                                          *)
(* Counts are floats in the code; here they are exact rationals.  Strings   *)
(* are sequences of character codes: the supported characters are 1..K in   *)
(* ascending order, the wildcards '%' and '_' sort below them as in ASCII.  *)
(***************************************************************************)
EXTENDS Integers, Sequences, FiniteSets, TLC

\* ------------------------------------------------------------------ bounds
\* Integer columns hold 0..MaxValue; MaxValue is the maximum of the type.
MaxValue == 4
\* Rows of a segment.
MaxRows == 3
\* Requested number of bins.
MaxBins == 4
\* Length of stored strings and of query strings.
MaxStrLen == 3
\* Rows of a segment of strings.
MaxStrRows == 2
\* Slices taken one after the other.
MaxSlices == 2

\* ------------------------------------------------------- string settings
SupportedCharacters == <<1, 2>>
StringPrefixLength == 2
PercentChar == -1
UnderscoreChar == 0
INVALID_BIN_ID == 0

K == Len(SupportedCharacters)

\* ------------------------------------------------------------------ helpers
Min2(a, b) == IF a <= b THEN a ELSE b
Max2(a, b) == IF a >= b THEN a ELSE b

RECURSIVE SumSeq(_)
SumSeq(s) == IF s = <<>> THEN 0 ELSE Head(s) + SumSeq(Tail(s))

CeilDiv(a, b) == (a + b - 1) \div b

SubStr(s, from, n) ==
  \* s.substr(from, n) with from 0-based, clipped at the end of s
  IF from >= Len(s) THEN <<>>
  ELSE SubSeq(s, from + 1, Min2(Len(s), from + n))

SubStrFrom(s, from) == SubStr(s, from, Len(s))

RECURSIVE common_prefix_length(_, _)
common_prefix_length(a, b) ==
  IF a = <<>> \/ b = <<>> \/ Head(a) # Head(b) THEN 0
  ELSE 1 + common_prefix_length(Tail(a), Tail(b))

\* std::string operator<
StrLess(a, b) ==
  LET n == common_prefix_length(a, b) IN
  IF n = Len(a) THEN n < Len(b)
  ELSE IF n = Len(b) THEN FALSE
  ELSE a[n + 1] < b[n + 1]

\* The order of T.
Less(T, a, b) == IF T = "int" THEN a < b ELSE StrLess(a, b)
LessEq(T, a, b) == a = b \/ Less(T, a, b)

\* ---------------------------------------------------------- domain codec
RECURSIVE PowSmall(_, _)
PowSmall(b, e) == IF e = 0 THEN 1 ELSE b * PowSmall(b, e - 1)

\* 1 + K + K^2 + ... + K^len
RECURSIVE base_value_for_prefix_length(_)
base_value_for_prefix_length(len) ==
  IF len = 0 THEN 1 ELSE PowSmall(K, len) + base_value_for_prefix_length(len - 1)

\* Number of a string in the order of all strings of at most `prefix` characters.
RECURSIVE StringToNumber(_, _)
StringToNumber(s, prefix) ==
  IF s = <<>> \/ prefix = 0 THEN 0
  ELSE (Head(s) - SupportedCharacters[1]) * base_value_for_prefix_length(prefix - 1) + 1
       + StringToNumber(Tail(s), prefix - 1)

convert_string_to_number_representation(s) == StringToNumber(s, StringPrefixLength)

RECURSIVE NumberToString(_, _)
NumberToString(n, prefix) ==
  IF n = 0 \/ prefix = 0 THEN <<>>
  ELSE LET base == base_value_for_prefix_length(prefix - 1)
           c == (n - 1) \div base
       IN <<SupportedCharacters[1] + c>> \o NumberToString((n - 1) - c * base, prefix - 1)

convert_number_representation_to_string(n) == NumberToString(n, StringPrefixLength)

\* next_value(value, supported_characters, string_prefix_length)
RECURSIVE next_value_str(_, _)
next_value_str(s, prefix) ==
  IF Len(s) < prefix THEN Append(s, SupportedCharacters[1])
  ELSE IF prefix = 0 \/ s = [i \in 1..prefix |-> SupportedCharacters[K]] THEN s
  ELSE LET cleaned == SubStr(s, 0, prefix)
           last == cleaned[prefix]
           front == SubStr(cleaned, 0, prefix - 1)
       IN IF last # SupportedCharacters[K] THEN Append(front, last + 1)
          ELSE next_value_str(front, prefix - 1)

\* next_value(value) of an integer: saturates at the maximum of the type
next_value_int(v) == IF v >= MaxValue THEN MaxValue ELSE v + 1

\* A _get_next_value that returns the value itself
SameValue(T, v) == v
\* AbstractHistogram<T>::_get_next_value
_get_next_value(T, v) ==
  IF T = "string" THEN next_value_str(v, Len(v) + 1) ELSE next_value_int(v)

\* ---------------------------------------------- value distribution (C2)
RECURSIVE SortSet(_, _)
SortSet(S, T) ==
  IF S = {} THEN <<>>
  ELSE LET m == CHOOSE x \in S : \A y \in S : LessEq(T, x, y)
       IN <<m>> \o SortSet(S \ {m}, T)

\* std::map<T, count> filled from the segment, as a sorted vector of pairs
gather_value_distribution(seg, T) ==
  LET sorted == SortSet({seg[i] : i \in DOMAIN seg}, T)
  IN [i \in 1..Len(sorted) |->
        [value |-> sorted[i],
         count |-> Cardinality({j \in DOMAIN seg : seg[j] = sorted[i]})]]

\* Rows of dist[from..to]
RangeCount(dist, from, to) ==
  SumSeq([i \in 1..(to - from + 1) |-> dist[from + i - 1].count])

\* ------------------------------------------------ bin layouts (C4)
\* A histogram: its element type, its layout, parallel arrays of the bins
\* (1-based here, 0-based in the code) and total_count().
MakeHistogram(T, layout, minima, maxima, heights, distincts, total) ==
  [T |-> T, layout |-> layout, minima |-> minima, maxima |-> maxima,
   heights |-> heights, distincts |-> distincts, total |-> total]

\* Equal distinct count: m distinct values in n bins of m \div n values, the first
\* m % n bins holding one more.
EqualDistinctCountHistogram(T, dist, max_bin_count) ==
  LET m == Len(dist)
      n == Min2(max_bin_count, m)
      per == m \div n
      extra == m % n
      begin(i) == (i - 1) * per + Min2(i - 1, extra) + 1
      end(i) == begin(i) + per - 1 + (IF i <= extra THEN 1 ELSE 0)
      heights == [i \in 1..n |-> RangeCount(dist, begin(i), end(i))]
  IN MakeHistogram(T, "EqualDistinctCount",
                   [i \in 1..n |-> dist[begin(i)].value],
                   [i \in 1..n |-> dist[end(i)].value],
                   heights,
                   [i \in 1..n |-> end(i) - begin(i) + 1],
                   SumSeq(heights))

\* The number the equal-width layout places a value by.
WidthRepr(T, v) == IF T = "string" THEN convert_string_to_number_representation(v) ELSE v

\* Equal width: the domain [min, max] of W units cut in ranges of CeilDiv(W, n)
\* units, the last one narrower if need be; a range without values is an empty bin.
EqualWidthHistogram(T, dist, max_bin_count) ==
  LET m == Len(dist)
      lo == WidthRepr(T, dist[1].value)
      hi == WidthRepr(T, dist[m].value)
      W == hi - lo + 1
      per == CeilDiv(W, max_bin_count)
      n == CeilDiv(W, per)
      begin(i) == lo + (i - 1) * per
      end(i) == Min2(begin(i) + per - 1, hi)
      inbin(i) == {j \in 1..m : begin(i) <= WidthRepr(T, dist[j].value)
                                /\ WidthRepr(T, dist[j].value) <= end(i)}
      edge(x) == IF T = "string" THEN convert_number_representation_to_string(x) ELSE x
      heights == [i \in 1..n |->
                    SumSeq([j \in 1..m |-> IF j \in inbin(i) THEN dist[j].count ELSE 0])]
  IN MakeHistogram(T, "EqualWidth",
                   [i \in 1..n |-> IF i = 1 THEN dist[1].value ELSE edge(begin(i))],
                   [i \in 1..n |-> IF i = n THEN dist[m].value ELSE edge(end(i))],
                   heights,
                   [i \in 1..n |-> Cardinality(inbin(i))],
                   SumSeq(heights))

\* Equal height: the values are appended to the current bin until it holds
\* count_per_bin rows. Returns the index in dist of the last value of every bin.
RECURSIVE EqualHeightEnds(_, _, _, _)
EqualHeightEnds(dist, i, acc, count_per_bin) ==
  IF i > Len(dist) THEN <<>>
  ELSE IF acc + dist[i].count >= count_per_bin \/ i = Len(dist)
       THEN <<i>> \o EqualHeightEnds(dist, i + 1, 0, count_per_bin)
       ELSE EqualHeightEnds(dist, i + 1, acc + dist[i].count, count_per_bin)

\* The height of every bin is the one shared count_per_bin; total_count() is the
\* number of rows.
EqualHeightHistogram(T, dist, max_bin_count) ==
  LET m == Len(dist)
      total == RangeCount(dist, 1, m)
      n == Min2(max_bin_count, m)
      count_per_bin == CeilDiv(total, n)
      ends == EqualHeightEnds(dist, 1, 0, count_per_bin)
      begin(i) == IF i = 1 THEN 1 ELSE ends[i - 1] + 1
  IN MakeHistogram(T, "EqualHeight",
                   [i \in 1..Len(ends) |-> dist[begin(i)].value],
                   [i \in 1..Len(ends) |-> dist[ends[i]].value],
                   [i \in 1..Len(ends) |-> count_per_bin],
                   [i \in 1..Len(ends) |-> ends[i] - begin(i) + 1],
                   total)

Layouts == {"EqualDistinctCount", "EqualWidth", "EqualHeight"}

\* TypeParam::from_segment(segment, max_bin_count)
from_segment(layout, T, seg, max_bin_count) ==
  LET dist == gather_value_distribution(seg, T) IN
  CASE layout = "EqualDistinctCount" -> EqualDistinctCountHistogram(T, dist, max_bin_count)
    [] layout = "EqualWidth" -> EqualWidthHistogram(T, dist, max_bin_count)
    [] layout = "EqualHeight" -> EqualHeightHistogram(T, dist, max_bin_count)

\* ------------------------------------------------ bin structure (C3)
bin_count(h) == Len(h.minima)
_bin_minimum(h, b) == h.minima[b]
_bin_maximum(h, b) == h.maxima[b]
_bin_height(h, b) == h.heights[b]
_bin_distinct_count(h, b) == h.distincts[b]
total_count(h) == h.total
\* A minimum() that reads the upper edge of the first bin
minimum_upper_edge(h) == _bin_maximum(h, 1)
minimum(h) == _bin_minimum(h, 1)
\* A maximum() that reads the lower edge of the last bin
maximum_lower_edge(h) == _bin_minimum(h, bin_count(h))
maximum(h) == _bin_maximum(h, bin_count(h))

InBin(h, b, v) == LessEq(h.T, _bin_minimum(h, b), v) /\ LessEq(h.T, v, _bin_maximum(h, b))

\* The first of a set of bins, or INVALID_BIN_ID
FirstBin(bins) ==
  IF bins = {} THEN INVALID_BIN_ID ELSE CHOOSE b \in bins : \A c \in bins : b <= c

\* The bin holding v, or INVALID_BIN_ID
_bin_for_value(h, v) == FirstBin({b \in 1..bin_count(h) : InBin(h, b, v)})

\* The first bin whose minimum is above v, or INVALID_BIN_ID
_next_bin_for_value(h, v) ==
  LET After(b) ==
        IF b # INVALID_BIN_ID
        THEN (IF b < bin_count(h) THEN b + 1 ELSE INVALID_BIN_ID)
        ELSE FirstBin({c \in 1..bin_count(h) : Less(h.T, v, _bin_minimum(h, c))})
  IN After(_bin_for_value(h, v))

\* ------------------------------------------------ unsigned 64-bit numbers
\* A number of `Limbs` bytes, least significant first; 8 bytes are a uint64_t.
U64Limbs == 8
WideLimbs == 10
Byte == 256

LimbsOf(k, limbs) ==
  \* a small number k >= 0 as `limbs` bytes
  [i \in 1..limbs |-> IF i = 1 THEN k % Byte
                     ELSE IF i = 2 THEN (k \div Byte) % Byte
                     ELSE IF i = 3 THEN (k \div (Byte * Byte)) % Byte
                     ELSE IF i = 4 THEN k \div (Byte * Byte * Byte)
                     ELSE 0]

RECURSIVE CarryLimbs(_, _, _, _)
CarryLimbs(conv, k, carry, limbs) ==
  IF k > limbs THEN <<>>
  ELSE LET t == conv[k] + carry
       IN <<t % Byte>> \o CarryLimbs(conv, k + 1, t \div Byte, limbs)

\* a * b modulo 2^(8 * limbs)
MulLimbs(a, b, limbs) ==
  LET conv == [k \in 1..limbs |-> SumSeq([i \in 1..k |-> a[i] * b[k + 1 - i]])]
  IN CarryLimbs(conv, 1, 0, limbs)

\* base^exp by squaring; base is a number of `limbs` bytes
RECURSIVE PowLimbs(_, _, _)
PowLimbs(base, exp, limbs) ==
  IF exp = 0 THEN LimbsOf(1, limbs)
  ELSE LET half == PowLimbs(MulLimbs(base, base, limbs), exp \div 2, limbs)
       IN IF exp % 2 = 1 THEN MulLimbs(base, half, limbs) ELSE half

\* ipow(base, exp) on uint64_t: wraps around modulo 2^64
ipow(base, exp) == PowLimbs(LimbsOf(base, U64Limbs), exp, U64Limbs)

U64One == LimbsOf(1, U64Limbs)
U64IsZero(x) == \A i \in 1..U64Limbs : x[i] = 0
\* x >= k for a small k
U64GeqSmall(x, k) ==
  \/ \E i \in 4..U64Limbs : x[i] > 0
  \/ x[1] + Byte * x[2] + Byte * Byte * x[3] >= k

\* a - b modulo 2^(8 * limbs): size_t subtraction wraps around
RECURSIVE BorrowLimbs(_, _, _, _, _)
BorrowLimbs(a, b, k, borrow, limbs) ==
  IF k > limbs THEN <<>>
  ELSE LET t == a[k] - b[k] - borrow
       IN <<t % Byte>> \o BorrowLimbs(a, b, k + 1, IF t < 0 THEN 1 ELSE 0, limbs)
SubLimbs(a, b, limbs) == BorrowLimbs(a, b, 1, 0, limbs)
\* a / k for a small k > 0, most significant byte first
RECURSIVE DivLimbsFrom(_, _, _, _)
DivLimbsFrom(a, k, i, rem) ==
  IF i = 0 THEN <<>>
  ELSE DivLimbsFrom(a, k, i - 1, (rem * Byte + a[i]) % k) \o <<(rem * Byte + a[i]) \div k>>
DivLimbs(a, k, limbs) == DivLimbsFrom(a, k, limbs, 0)
\* A uint64_t as a number of the model: itself below 2^24, and 2^24 for all above
U64Large == Byte * Byte * Byte
U64ToNat(x) ==
  IF \E i \in 4..U64Limbs : x[i] > 0 THEN U64Large
  ELSE x[1] + Byte * x[2] + Byte * Byte * x[3]

\* Does K^e, computed without wrap-around, stay <= 2^64 (the double that
\* std::numeric_limits<uint64_t>::max() converts to)?
AtMostTwoTo64(e) ==
  LET w == PowLimbs(LimbsOf(K, WideLimbs), e, WideLimbs)
  IN /\ w[10] = 0
     /\ \/ w[9] = 0
        \/ w[9] = 1 /\ \A i \in 1..8 : w[i] = 0

RECURSIVE LargestExponent(_)
LargestExponent(e) == IF AtMostTwoTo64(e + 1) THEN LargestExponent(e + 1) ELSE e

\* static_cast<uint64_t>(std::log(uint64_t max) / std::log(K))
maximum_exponent == LargestExponent(0)

\* ------------------------------------------------------------------ counts
\* A float of the code, kept exact: off + (n / d) / div with div a uint64_t.
\* d = 0 or div = 0 is a division by zero (an infinity, or a NaN when n = 0).
Count(off, n, d, div) == [off |-> off, n |-> n, d |-> d, div |-> div]
Plain(n, d) == Count(0, n, d, U64One)
CInt(k) == Plain(k, 1)
IsPlain(x) == x.div = U64One /\ x.off = 0 /\ x.d > 0
IsFinite(x) == x.d > 0 /\ ~U64IsZero(x.div)

CAdd(x, y) == Plain(x.n * y.d + y.n * x.d, x.d * y.d)
CSub(x, y) == Plain(x.n * y.d - y.n * x.d, x.d * y.d)
CMulInt(x, k) == Plain(x.n * k, x.d)
\* k - x, also for an x that was divided by a uint64_t
CSubFrom(k, x) == IF x.div = U64One THEN Plain((k - x.off) * x.d - x.n, x.d)
                  ELSE Count(k - x.off, 0 - x.n, x.d, x.div)
\* x / div
CDivU64(x, div) == Count(0, x.n, x.d, div)
CLess(x, y) == x.n * y.d < y.n * x.d
CMin(x, y) == IF CLess(y, x) THEN y ELSE x
CEq(x, y) == x.div = y.div /\ x.off = y.off /\ x.d > 0 /\ y.d > 0 /\ x.n * y.d = y.n * x.d
\* std::ceil of a plain count
CCeil(x) == IF x.n >= 0 THEN CeilDiv(x.n, x.d) ELSE 0 - ((0 - x.n) \div x.d)

\* 0 <= x as a float comparison (false for a NaN): off * d * div + n >= 0
CNonNegative(x) ==
  /\ IsFinite(x)
  /\ CASE x.n >= 0 /\ x.off >= 0 -> TRUE
       [] x.n >= 0 /\ x.off < 0 ->
            ~U64GeqSmall(x.div, (x.n \div ((0 - x.off) * x.d)) + 1)
       [] x.n < 0 ->
            x.off > 0 /\ U64GeqSmall(x.div, CeilDiv(0 - x.n, x.off * x.d))
\* x <= k
CAtMost(x, k) == CNonNegative(Count(k - x.off, 0 - x.n, x.d, x.div))

\* ------------------------------------------------ predicate engine (C5)
Predicates == {"Equals", "NotEquals", "LessThan", "LessThanEquals", "GreaterThan",
               "GreaterThanEquals", "Between", "Like", "NotLike"}

\* std::optional<AllTypeVariant>: std::nullopt, or a value
NoValue == <<>>
Some(v) == <<v>>

\* A bool, or the failure of an Assert / Fail
B(val) == [err |-> FALSE, val |-> val]
BFail == [err |-> TRUE, val |-> FALSE]
\* A std::pair<float, bool>, or the failure of an Assert / Fail
\* A pair that is never certain
UncertainPair(first, second) == [err |-> FALSE, first |-> first, second |-> FALSE]
E(first, second) == [err |-> FALSE, first |-> first, second |-> second]
EFail == [err |-> TRUE, first |-> CInt(0), second |-> FALSE]

\* HistogramWidthType _bin_width(index), numbers
_bin_width(h, b) == _get_next_value(h.T, _bin_maximum(h, b) - _bin_minimum(h, b))

\* A share computed on one character more than the prefix length
ShareOfLongerPrefix(h, b, value) ==
  IF h.T # "string"
  THEN Plain(value - _bin_minimum(h, b), _bin_width(h, b))
  ELSE
  LET bin_min == _bin_minimum(h, b)
      bin_max == _bin_maximum(h, b)
      common_prefix_len == common_prefix_length(bin_min, bin_max)
      repr(str) == StringToNumber(SubStrFrom(str, common_prefix_len), StringPrefixLength + 1)
  IN Plain(repr(value) - repr(bin_min), repr(bin_max) - repr(bin_min) + 1)
\* The share of the values of a bin that are smaller than `value`
_share_of_bin_less_than_value(h, b, value) ==
  IF h.T # "string"
  THEN Plain(value - _bin_minimum(h, b), _bin_width(h, b))
  ELSE LET bin_min == _bin_minimum(h, b)
           bin_max == _bin_maximum(h, b)
           common_prefix_len == common_prefix_length(bin_min, bin_max)
           value_repr == convert_string_to_number_representation(SubStrFrom(value, common_prefix_len))
           min_repr == convert_string_to_number_representation(SubStrFrom(bin_min, common_prefix_len))
           max_repr == convert_string_to_number_representation(SubStrFrom(bin_max, common_prefix_len))
       IN Plain(value_repr - min_repr, max_repr - min_repr + 1)

\* LikeMatcher::contains_wildcard
contains_wildcard(value) ==
  \E i \in DOMAIN value : value[i] \in {PercentChar, UnderscoreChar}

\* value.find('%'): the 0-based index of the first '%', or Len(value) for npos
FindPercent(value) ==
  LET at == {i \in DOMAIN value : value[i] = PercentChar}
  IN IF at = {} THEN Len(value) ELSE (CHOOSE i \in at : \A j \in at : i <= j) - 1

CountChar(value, c) == Cardinality({i \in DOMAIN value : value[i] = c})

\* value.find_first_not_of(allowed_characters) == npos
OnlyAllowedCharacters(predicate_type, value) ==
  \A i \in DOMAIN value :
    \/ \E k \in DOMAIN SupportedCharacters : value[i] = SupportedCharacters[k]
    \/ predicate_type \in {"Like", "NotLike"} /\ value[i] \in {PercentChar, UnderscoreChar}

\* Are the bins strictly between `from` and `to` all empty?
NoRowsBetween(h, from, to) ==
  \A current_bin \in (from + 1)..(to - 1) : _bin_height(h, current_bin) = 0

RECURSIVE does_not_contain(_, _, _, _)

\* A Between that takes any two values outside the bins for values of one gap
BetweenOfAnyGaps(h, value, value2) ==
  IF value2 = NoValue THEN BFail
  ELSE
  LET InOneGap(value_bin, value2_bin) ==
        IF /\ value_bin = INVALID_BIN_ID /\ value2_bin = INVALID_BIN_ID
           /\ bin_count(h) > 1
        THEN B(TRUE)
        ELSE IF /\ value_bin # INVALID_BIN_ID /\ value2_bin # INVALID_BIN_ID
                /\ _bin_height(h, value_bin) = 0 /\ _bin_height(h, value2_bin) = 0
             THEN B(NoRowsBetween(h, value_bin, value2_bin))
        ELSE B(FALSE)
      Outside(gte, lte) ==
        IF gte.err THEN BFail
        ELSE IF gte.val THEN B(TRUE)
        ELSE IF lte.err THEN BFail
        ELSE IF lte.val \/ Less(h.T, value2[1], value) THEN B(TRUE)
        ELSE InOneGap(_bin_for_value(h, value), _bin_for_value(h, value2[1]))
  IN Outside(does_not_contain(h, "GreaterThanEquals", value, NoValue),
             does_not_contain(h, "LessThanEquals", value2[1], NoValue))
\* A Between that is pruned only at the edges of the histogram
BetweenOfEdges(h, value, value2) ==
  IF value2 = NoValue THEN BFail
  ELSE
  LET Outside(gte, lte) ==
        IF gte.err THEN BFail
        ELSE IF gte.val THEN B(TRUE)
        ELSE IF lte.err THEN BFail
        ELSE B(lte.val \/ Less(h.T, value2[1], value))
  IN Outside(does_not_contain(h, "GreaterThanEquals", value, NoValue),
             does_not_contain(h, "LessThanEquals", value2[1], NoValue))
\* _does_not_contain, case Between
DoesNotContainBetween(h, value, value2) ==
  IF value2 = NoValue THEN BFail
  ELSE
  LET InOneGap(value_bin, value2_bin) ==
        IF /\ value_bin = INVALID_BIN_ID /\ value2_bin = INVALID_BIN_ID
           /\ bin_count(h) > 1
           /\ _next_bin_for_value(h, value) = _next_bin_for_value(h, value2[1])
        THEN B(TRUE)
        ELSE IF /\ value_bin # INVALID_BIN_ID /\ value2_bin # INVALID_BIN_ID
                /\ _bin_height(h, value_bin) = 0 /\ _bin_height(h, value2_bin) = 0
             THEN B(NoRowsBetween(h, value_bin, value2_bin))
        ELSE B(FALSE)
      Outside(gte, lte) ==
        IF gte.err THEN BFail
        ELSE IF gte.val THEN B(TRUE)
        ELSE IF lte.err THEN BFail
        ELSE IF lte.val \/ Less(h.T, value2[1], value) THEN B(TRUE)
        ELSE InOneGap(_bin_for_value(h, value), _bin_for_value(h, value2[1]))
  IN Outside(does_not_contain(h, "GreaterThanEquals", value, NoValue),
             does_not_contain(h, "LessThanEquals", value2[1], NoValue))

\* An Equals that is pruned only for a value in no bin
EqualsOfNoBin(h, value) == B(_bin_for_value(h, value) = INVALID_BIN_ID)
\* _does_not_contain, case Equals
DoesNotContainEquals(h, value) ==
  LET Empty(bin_id) == B(bin_id = INVALID_BIN_ID \/ _bin_height(h, bin_id) = 0)
  IN Empty(_bin_for_value(h, value))

\* AbstractHistogram<T>::_does_not_contain
_does_not_contain(h, predicate_type, value, value2) ==
  CASE predicate_type = "Equals" -> DoesNotContainEquals(h, value)
    [] predicate_type = "NotEquals" -> B(minimum(h) = value /\ maximum(h) = value)
    [] predicate_type = "LessThan" -> B(LessEq(h.T, value, minimum(h)))
    [] predicate_type = "LessThanEquals" -> B(Less(h.T, value, minimum(h)))
    [] predicate_type = "GreaterThanEquals" -> B(Less(h.T, maximum(h), value))
    [] predicate_type = "GreaterThan" -> B(LessEq(h.T, maximum(h), value))
    [] predicate_type = "Between" -> DoesNotContainBetween(h, value, value2)
    [] predicate_type \in {"Like", "NotLike"} -> BFail
    [] OTHER -> B(FALSE)

\* AbstractHistogram<std::string>::does_not_contain, case Like
DoesNotContainLike(h, value) ==
  IF ~contains_wildcard(value) THEN does_not_contain(h, "Equals", value, NoValue)
  ELSE IF Head(value) = PercentChar THEN B(FALSE)
  ELSE
  LET match_all_index == FindPercent(value)
      search_prefix == SubStr(value, 0, match_all_index)
      InOneGap(search_prefix_next_value, search_prefix_bin, search_prefix_next_value_bin,
               search_prefix_next_bin) ==
        IF /\ search_prefix_bin = INVALID_BIN_ID
           /\ search_prefix_next_value_bin = INVALID_BIN_ID /\ bin_count(h) > 1
           /\ search_prefix_next_bin = _next_bin_for_value(h, search_prefix_next_value)
        THEN B(TRUE)
        ELSE IF /\ search_prefix_bin = INVALID_BIN_ID
                /\ search_prefix_next_value_bin # INVALID_BIN_ID
                /\ search_prefix_next_bin = search_prefix_next_value_bin
                /\ _bin_minimum(h, search_prefix_next_value_bin) = search_prefix_next_value
             THEN B(TRUE)
        ELSE IF /\ search_prefix_bin # INVALID_BIN_ID
                /\ search_prefix_next_value_bin # INVALID_BIN_ID
                /\ _bin_height(h, search_prefix_bin) = 0
                /\ \/ _bin_height(h, search_prefix_next_value_bin) = 0
                   \/ _bin_minimum(h, search_prefix_next_value_bin) = search_prefix_next_value
             THEN B(NoRowsBetween(h, search_prefix_bin, search_prefix_next_value_bin))
        ELSE B(FALSE)
      Outside(search_prefix_next_value, gte, lt) ==
        IF gte.err THEN BFail
        ELSE IF gte.val THEN B(TRUE)
        ELSE IF search_prefix = search_prefix_next_value THEN B(FALSE)
        ELSE IF lt.err THEN BFail
        ELSE IF lt.val THEN B(TRUE)
        ELSE InOneGap(search_prefix_next_value,
                      _bin_for_value(h, search_prefix),
                      _bin_for_value(h, search_prefix_next_value),
                      _next_bin_for_value(h, search_prefix))
      UpToNext(search_prefix_next_value) ==
        Outside(search_prefix_next_value,
                does_not_contain(h, "GreaterThanEquals", search_prefix, NoValue),
                does_not_contain(h, "LessThan", search_prefix_next_value, NoValue))
  IN IF match_all_index = Len(value) THEN B(FALSE)
     ELSE UpToNext(next_value_str(search_prefix, Len(search_prefix)))

\* AbstractHistogram<std::string>::does_not_contain, case NotLike
DoesNotContainNotLike(h, value) ==
  IF ~contains_wildcard(value) THEN does_not_contain(h, "NotEquals", value, NoValue)
  ELSE IF Head(value) = PercentChar THEN B(value = <<PercentChar>>)
  ELSE
  LET match_all_index == FindPercent(value)
      search_prefix == SubStr(value, 0, match_all_index)
  IN B(/\ match_all_index # Len(value)
       /\ search_prefix = SubStr(minimum(h), 0, Len(search_prefix))
       /\ search_prefix = SubStr(maximum(h), 0, Len(search_prefix)))

\* AbstractHistogram<T>::does_not_contain and its specialization for strings
does_not_contain(h, predicate_type, value, value2) ==
  IF h.T = "string" /\ ~OnlyAllowedCharacters(predicate_type, value) THEN BFail
  ELSE IF h.T = "string" /\ predicate_type = "Like" THEN DoesNotContainLike(h, value)
  ELSE IF h.T = "string" /\ predicate_type = "NotLike" THEN DoesNotContainNotLike(h, value)
  ELSE _does_not_contain(h, predicate_type, value, value2)

RECURSIVE estimate_cardinality(_, _, _, _)
RECURSIVE _estimate_cardinality(_, _, _, _)

\* _estimate_cardinality, case LessThan
EstimateLessThan(h, value) ==
  IF Less(h.T, maximum(h), value) THEN E(CInt(total_count(h)), TRUE)
  ELSE
  LET share(bin) ==
        IF bin = INVALID_BIN_ID THEN CInt(0)
        ELSE CMulInt(_share_of_bin_less_than_value(h, bin, value), _bin_height(h, bin))
      \* the bins before `index`; all of them if index is INVALID_BIN_ID (the largest BinID)
      before(index) == IF index = INVALID_BIN_ID THEN bin_count(h) ELSE index - 1
      cardinality(bin, index) ==
        CAdd(share(bin), CInt(SumSeq(SubSeq(h.heights, 1, before(index)))))
      Upto(bin) ==
        E(CMin(cardinality(bin, IF bin = INVALID_BIN_ID THEN _next_bin_for_value(h, value)
                                ELSE bin),
               CInt(total_count(h))),
          bin = INVALID_BIN_ID)
  IN Upto(_bin_for_value(h, value))

\* AbstractHistogram<T>::_estimate_cardinality
_estimate_cardinality(h, predicate_type, value, value2) ==
  LET Unpruned ==
        CASE predicate_type = "Equals" ->
               LET PerDistinct(index) ==
                     E(Plain(_bin_height(h, index), _bin_distinct_count(h, index)),
                       _bin_distinct_count(h, index) = 1)
               IN PerDistinct(_bin_for_value(h, value))
          [] predicate_type = "NotEquals" ->
               LET estimate_pair == _estimate_cardinality(h, "Equals", value, NoValue)
               IN IF estimate_pair.err THEN EFail
                  ELSE E(CSubFrom(total_count(h), estimate_pair.first), estimate_pair.second)
          [] predicate_type = "LessThan" -> EstimateLessThan(h, value)
          [] predicate_type = "LessThanEquals" ->
               estimate_cardinality(h, "LessThan", _get_next_value(h.T, value), NoValue)
          [] predicate_type = "GreaterThanEquals" ->
               LET estimate_pair == estimate_cardinality(h, "LessThan", value, NoValue)
               IN IF estimate_pair.err THEN EFail
                  ELSE E(CSubFrom(total_count(h), estimate_pair.first), estimate_pair.second)
          [] predicate_type = "GreaterThan" ->
               LET estimate_pair == estimate_cardinality(h, "LessThanEquals", value, NoValue)
               IN IF estimate_pair.err THEN EFail
                  ELSE E(CSubFrom(total_count(h), estimate_pair.first), estimate_pair.second)
          [] predicate_type = "Between" ->
               IF value2 = NoValue THEN EFail
               ELSE IF Less(h.T, value2[1], value) THEN E(CInt(0), TRUE)
               ELSE
               LET estimate_pair_lte_value2 == estimate_cardinality(h, "LessThanEquals", value2[1], NoValue)
                   estimate_pair_lt_value == estimate_cardinality(h, "LessThan", value, NoValue)
               IN IF estimate_pair_lte_value2.err \/ estimate_pair_lt_value.err THEN EFail
                  ELSE E(CSub(estimate_pair_lte_value2.first, estimate_pair_lt_value.first),
                         estimate_pair_lte_value2.second /\ estimate_pair_lt_value.second)
          [] predicate_type \in {"Like", "NotLike"} -> EFail
          [] OTHER -> E(CInt(total_count(h)), FALSE)
      Pruned(pruned) ==
        IF pruned.err THEN EFail
        ELSE IF pruned.val THEN E(CInt(0), TRUE)
        ELSE Unpruned
  IN Pruned(does_not_contain(h, predicate_type, value, value2))

\* AbstractHistogram<std::string>::estimate_cardinality, case Like
EstimateLike(h, value) ==
  IF ~contains_wildcard(value) THEN estimate_cardinality(h, "Equals", value, NoValue)
  ELSE IF CountChar(value, UnderscoreChar) > 0 THEN E(CInt(total_count(h)), FALSE)
  ELSE IF value = <<PercentChar>> THEN E(CInt(total_count(h)), TRUE)
  ELSE
  LET any_chars_count == CountChar(value, PercentChar) IN
  IF Head(value) # PercentChar
  THEN LET search_prefix == SubStr(value, 0, FindPercent(value))
           fixed == Len(value) - Len(search_prefix) - any_chars_count
           additional_characters == IF fixed > maximum_exponent THEN maximum_exponent ELSE fixed
           search_prefix_next_value == next_value_str(search_prefix, Len(search_prefix))
           smaller_next == estimate_cardinality(h, "LessThan", search_prefix_next_value, NoValue)
           smaller == estimate_cardinality(h, "LessThan", search_prefix, NoValue)
           count_smaller_next_value ==
             IF search_prefix = search_prefix_next_value THEN CInt(total_count(h))
             ELSE smaller_next.first
       IN IF search_prefix # search_prefix_next_value /\ smaller_next.err THEN EFail
          ELSE IF smaller.err THEN EFail
          ELSE E(CDivU64(CSub(count_smaller_next_value, smaller.first),
                         ipow(K, additional_characters)),
                 FALSE)
  ELSE LET fixed_characters == Len(value) - any_chars_count
       IN E(CDivU64(CInt(total_count(h)), ipow(K, fixed_characters)), FALSE)

\* AbstractHistogram<std::string>::estimate_cardinality, case NotLike
EstimateNotLike(h, value) ==
  IF ~contains_wildcard(value) THEN estimate_cardinality(h, "NotEquals", value, NoValue)
  ELSE IF CountChar(value, UnderscoreChar) > 0 THEN E(CInt(total_count(h)), FALSE)
  ELSE LET estimate_pair == estimate_cardinality(h, "Like", value, NoValue)
       IN IF estimate_pair.err THEN EFail
          ELSE E(CSubFrom(total_count(h), estimate_pair.first), estimate_pair.second)

\* AbstractHistogram<T>::estimate_cardinality and its specialization for strings
estimate_cardinality(h, predicate_type, value, value2) ==
  IF h.T # "string" THEN _estimate_cardinality(h, predicate_type, value, value2)
  ELSE IF ~OnlyAllowedCharacters(predicate_type, value) THEN EFail
  ELSE LET Pruned(pruned) ==
             IF pruned.err THEN EFail
             ELSE IF pruned.val THEN E(CInt(0), TRUE)
             ELSE CASE predicate_type = "Like" -> EstimateLike(h, value)
                    [] predicate_type = "NotLike" -> EstimateNotLike(h, value)
                    [] OTHER -> _estimate_cardinality(h, predicate_type, value, value2)
       IN Pruned(does_not_contain(h, predicate_type, value, value2))

\* ------------------------------------------------------------------ slicing
\* A histogram, or the failure of an Assert / Fail
S(h) == [err |-> FALSE, hist |-> h]
SFail == [err |-> TRUE, hist |-> <<>>]

\* GenericHistogram<T>(bin_minima, bin_maxima, bin_heights, bin_distinct_counts)
GenericHistogram(T, minima, maxima, heights, distincts) ==
  MakeHistogram(T, "Generic", minima, maxima, heights, distincts, SumSeq(heights))

\* static_cast<HistogramCountType>(std::ceil(count * share))
CeilOfShare(count, share) == CCeil(CMulInt(share, count))

\* slice_with_predicate, case Equals
SliceEquals(h, value) ==
  LET OneBin(estimate_pair) ==
        IF estimate_pair.err THEN SFail
        ELSE S(GenericHistogram(h.T, <<value>>, <<value>>,
                                <<CCeil(estimate_pair.first)>>, <<1>>))
  IN OneBin(estimate_cardinality(h, "Equals", value, NoValue))

\* slice_with_predicate, case NotEquals. The bin of a value that is in no bin is
\* INVALID_BIN_ID: the distinct count read through it is whatever lies out of
\* range, and `oob_distinct_is_one` tells whether that happens to be 1.
SliceNotEquals(h, value, value2, oob_distinct_is_one) ==
  LET Without(value_bin_id, estimate_pair) ==
        LET drop == IF value_bin_id = INVALID_BIN_ID THEN oob_distinct_is_one
                    ELSE _bin_distinct_count(h, value_bin_id) = 1
            new_bin_count == IF drop THEN bin_count(h) - 1 ELSE bin_count(h)
            value_count == CCeil(estimate_pair.first)
            skipped(bin_id) == bin_id = value_bin_id /\ _bin_distinct_count(h, bin_id) = 1
        IN IF \E bin_id \in 1..new_bin_count : bin_id = value_bin_id /\ ~skipped(bin_id)
                                               /\ estimate_pair.err
           THEN SFail
           ELSE S(GenericHistogram(h.T,
                    [bin_id \in 1..new_bin_count |-> _bin_minimum(h, bin_id)],
                    [bin_id \in 1..new_bin_count |-> _bin_maximum(h, bin_id)],
                    [bin_id \in 1..new_bin_count |->
                       IF skipped(bin_id) THEN 0
                       ELSE IF bin_id = value_bin_id THEN _bin_height(h, bin_id) - value_count
                       ELSE _bin_height(h, bin_id)],
                    [bin_id \in 1..new_bin_count |->
                       IF skipped(bin_id) THEN 0
                       ELSE IF bin_id = value_bin_id THEN _bin_distinct_count(h, bin_id) - 1
                       ELSE _bin_distinct_count(h, bin_id)]))
  IN Without(_bin_for_value(h, value), estimate_cardinality(h, "Equals", value, value2))

\* A test that also cuts the last bin at its upper edge
CutsAtUpperEdge(h, last_sliced_bin_id, value) ==
  LessEq(h.T, value, _bin_maximum(h, last_sliced_bin_id))
\* value < _bin_maximum(last_sliced_bin_id): is the last bin of the slice cut at value?
CutsLastBin(h, last_sliced_bin_id, value) ==
  Less(h.T, value, _bin_maximum(h, last_sliced_bin_id))

\* The value is in no bin and no bin lies after it: it is above maximum()
InNoBin(bin_for_value, next_bin_for_value) == bin_for_value = INVALID_BIN_ID
AboveEveryBin(bin_for_value, next_bin_for_value) ==
  bin_for_value = INVALID_BIN_ID /\ next_bin_for_value = INVALID_BIN_ID

\* slice_with_predicate, cases LessThan and LessThanEquals
SliceLessThan(h, predicate_type, value) ==
  LET sliced_bin_count(bin_for_value, next_bin_for_value) ==
        IF bin_for_value = INVALID_BIN_ID THEN next_bin_for_value - 1
        ELSE IF predicate_type = "LessThan" /\ value = _bin_minimum(h, bin_for_value)
             THEN bin_for_value - 1
        ELSE bin_for_value
      less_than_bound == IF predicate_type = "LessThan" THEN value
                         ELSE _get_next_value(h.T, value)
      \* the bins up to `last` (sliced_bin_count - 1 in the code's 0-based ids), the
      \* last one cut at value
      Bins(last, cut, sliced_bin_share) ==
        S(GenericHistogram(h.T,
            [b \in 1..last |-> _bin_minimum(h, b)],
            [b \in 1..last |-> IF b = last /\ cut THEN value ELSE _bin_maximum(h, b)],
            [b \in 1..last |->
               IF b = last /\ cut THEN CeilOfShare(_bin_height(h, b), sliced_bin_share)
               ELSE _bin_height(h, b)],
            [b \in 1..last |->
               IF b = last /\ cut THEN CeilOfShare(_bin_distinct_count(h, b), sliced_bin_share)
               ELSE _bin_distinct_count(h, b)]))
      UpTo(last) ==
        Bins(last, CutsLastBin(h, last, value),
             _share_of_bin_less_than_value(h, last, less_than_bound))
      Slice(bin_for_value, next_bin_for_value) ==
        IF AboveEveryBin(bin_for_value, next_bin_for_value)
        THEN S(h)
        ELSE UpTo(sliced_bin_count(bin_for_value, next_bin_for_value))
  IN Slice(_bin_for_value(h, value), _next_bin_for_value(h, value))

\* slice_with_predicate, cases GreaterThan and GreaterThanEquals
SliceGreaterThan(h, predicate_type, value) ==
  LET sliced_bin_count(bin_for_value, next_bin_for_value) ==
        IF bin_for_value = INVALID_BIN_ID THEN bin_count(h) - next_bin_for_value + 1
        ELSE IF predicate_type = "GreaterThan" /\ value = _bin_maximum(h, bin_for_value)
             THEN bin_count(h) - bin_for_value
        ELSE bin_count(h) - bin_for_value + 1
      \* the bins from `first_sliced_bin_id` on, the first one cut at value
      Bins(first_sliced_bin_id, cut, sliced_bin_share) ==
        LET sliced == bin_count(h) - first_sliced_bin_id + 1
            from(b) == first_sliced_bin_id + b - 1
        IN S(GenericHistogram(h.T,
               [b \in 1..sliced |->
                  IF b = 1 /\ cut
                  THEN (IF predicate_type = "GreaterThan" THEN _get_next_value(h.T, value)
                        ELSE value)
                  ELSE _bin_minimum(h, from(b))],
               [b \in 1..sliced |-> _bin_maximum(h, from(b))],
               [b \in 1..sliced |->
                  IF b = 1 /\ cut THEN CeilOfShare(_bin_height(h, from(b)), sliced_bin_share)
                  ELSE _bin_height(h, from(b))],
               [b \in 1..sliced |->
                  IF b = 1 /\ cut
                  THEN CeilOfShare(_bin_distinct_count(h, from(b)), sliced_bin_share)
                  ELSE _bin_distinct_count(h, from(b))]))
      From(first_sliced_bin_id) ==
        Bins(first_sliced_bin_id,
             Less(h.T, _bin_minimum(h, first_sliced_bin_id), value),
             CSubFrom(1, _share_of_bin_less_than_value(h, first_sliced_bin_id, value)))
      Slice(bin_for_value, next_bin_for_value) ==
        IF bin_for_value = INVALID_BIN_ID /\ next_bin_for_value = 1
        THEN S(h)
        ELSE From(bin_count(h) - sliced_bin_count(bin_for_value, next_bin_for_value) + 1)
  IN Slice(_bin_for_value(h, value), _next_bin_for_value(h, value))

\* AbstractHistogram<T>::slice_with_predicate
RECURSIVE slice_with_predicate(_, _, _, _, _)
slice_with_predicate(h, predicate_type, value, value2, oob_distinct_is_one) ==
  LET pruned == does_not_contain(h, predicate_type, value, value2) IN
  IF pruned.err \/ pruned.val THEN SFail
  ELSE
  CASE predicate_type = "Equals" -> SliceEquals(h, value)
    [] predicate_type = "NotEquals" -> SliceNotEquals(h, value, value2, oob_distinct_is_one)
    [] predicate_type \in {"LessThan", "LessThanEquals"} ->
         SliceLessThan(h, predicate_type, value)
    [] predicate_type \in {"GreaterThan", "GreaterThanEquals"} ->
         SliceGreaterThan(h, predicate_type, value)
    [] predicate_type = "Between" ->
         IF value2 = NoValue THEN SFail
         ELSE LET gte == slice_with_predicate(h, "GreaterThanEquals", value, NoValue,
                                              oob_distinct_is_one)
              IN IF gte.err THEN SFail
                 ELSE slice_with_predicate(gte.hist, "LessThanEquals", value2[1], NoValue,
                                           oob_distinct_is_one)
    [] OTHER -> SFail

\* ------------------------------------------------------- the source segment
\* SQL LIKE: '%' matches any run of characters, '_' any one character
RECURSIVE LikeMatches(_, _)
LikeMatches(str, pattern) ==
  IF pattern = <<>> THEN str = <<>>
  ELSE IF Head(pattern) = PercentChar
       THEN LikeMatches(str, Tail(pattern)) \/ (str # <<>> /\ LikeMatches(Tail(str), pattern))
  ELSE IF str = <<>> THEN FALSE
  ELSE (Head(pattern) = UnderscoreChar \/ Head(pattern) = Head(str))
       /\ LikeMatches(Tail(str), Tail(pattern))

\* Does a row satisfy the predicate?
Satisfies(T, row, predicate_type, value, value2) ==
  CASE predicate_type = "Equals" -> row = value
    [] predicate_type = "NotEquals" -> row # value
    [] predicate_type = "LessThan" -> Less(T, row, value)
    [] predicate_type = "LessThanEquals" -> LessEq(T, row, value)
    [] predicate_type = "GreaterThan" -> Less(T, value, row)
    [] predicate_type = "GreaterThanEquals" -> LessEq(T, value, row)
    [] predicate_type = "Between" -> LessEq(T, value, row) /\ LessEq(T, row, value2[1])
    [] predicate_type = "Like" -> LikeMatches(row, value)
    [] predicate_type = "NotLike" -> ~LikeMatches(row, value)

\* The number of rows of the segment that satisfy the predicate
MatchingRows(T, seg, predicate_type, value, value2) ==
  Cardinality({i \in DOMAIN seg : Satisfies(T, seg[i], predicate_type, value, value2)})

\* ------------------------------------------------------------------ inputs
IntValues == 0..MaxValue
StringsOver(chars, n) == UNION {[1..k -> chars] : k \in 0..n}
SupportedSet == {SupportedCharacters[k] : k \in DOMAIN SupportedCharacters}
StringValues == StringsOver(SupportedSet, MaxStrLen)
\* A run of n fixed characters
FixedRun(n) == [i \in 1..n |-> SupportedCharacters[1]]
\* Patterns of up to MaxStrLen characters, and patterns with about as many fixed
\* characters after a '%' as the exponent of ipow can take
Patterns ==
  StringsOver(SupportedSet \cup {PercentChar, UnderscoreChar}, MaxStrLen)
  \cup {<<PercentChar>> \o FixedRun(n) : n \in (maximum_exponent - 1)..(maximum_exponent + 1)}
  \cup {<<SupportedCharacters[1], PercentChar>> \o FixedRun(n) :
          n \in (maximum_exponent - 1)..(maximum_exponent + 1)}

ValuesOf(T) == IF T = "int" THEN IntValues ELSE StringValues

IsSorted(T, seg) == \A i \in 1..(Len(seg) - 1) : LessEq(T, seg[i], seg[i + 1])

\* The segments, up to the order of their rows
SegmentsOf(T) ==
  LET rows == IF T = "int" THEN MaxRows ELSE MaxStrRows
  IN {seg \in UNION {[1..n -> ValuesOf(T)] : n \in 1..rows} : IsSorted(T, seg)}

Query(predicate_type, value, value2) ==
  [predicate_type |-> predicate_type, value |-> value, value2 |-> value2]

\* The calls with one value, with two values (Between), and with a pattern
QueriesOver(values, patterns) ==
  {Query(p, v, NoValue) : p \in Predicates \ {"Between", "Like", "NotLike"}, v \in values}
  \cup {Query("Between", v, Some(v2)) : v \in values, v2 \in values}
  \cup {Query(p, v, NoValue) : p \in {"Like", "NotLike"}, v \in patterns}

\* A character that is not one of the supported characters
UnsupportedChar == SupportedCharacters[K] + 1
\* Search values that the validation of a comparison refuses: with an unsupported
\* character, or with a wildcard
InvalidStrings ==
  {<<UnsupportedChar>>, <<SupportedCharacters[1], UnsupportedChar>>,
   <<PercentChar>>, <<UnderscoreChar>>,
   <<SupportedCharacters[1], PercentChar>>, <<SupportedCharacters[1], UnderscoreChar>>}
\* Patterns with an unsupported character
InvalidPatterns ==
  {<<UnsupportedChar>>, <<SupportedCharacters[1], UnsupportedChar>>,
   <<PercentChar, UnsupportedChar>>, <<SupportedCharacters[1], PercentChar, UnsupportedChar>>}

IntQueries == QueriesOver(IntValues, IntValues)
StringQueries ==
  QueriesOver(StringValues, Patterns) \cup QueriesOver(InvalidStrings, InvalidPatterns)
QueriesOf(T) == IF T = "int" THEN IntQueries ELSE StringQueries

\* The calls of slice_with_predicate: a pattern is refused whatever it is
StringSliceQueries ==
  {q \in StringQueries : q.predicate_type \in {"Like", "NotLike"} => Len(q.value) <= 1}
SliceQueriesOf(T) == IF T = "int" THEN IntQueries ELSE StringSliceQueries

\* ------------------------------------------------------------ state machine
VARIABLES
  segment,   \* the rows the histogram was built from
  hist,      \* the histogram: built from the segment, or the latest slice
  source,    \* the histogram the latest slice was taken from
  slices,    \* how many times slice_with_predicate was applied
  op,        \* the last call: "from_segment", "does_not_contain",
             \* "estimate_cardinality", "slice_with_predicate"
  query,     \* its arguments
  result,    \* what it returned (for a slice: whether it failed)
  \* DisjointClustersAlgo::_get_boundaries on the histogram `hist`
  pc,                      \* "none", "bins" (in the bin loop), "returned", "failed",
                           \* "indexed" (after _get_cluster_index)
  row_count, num_clusters, nullable,
  num_null_values,         \* a size_t
  ideal_rows_per_cluster,
  boundaries,              \* pairs of AllTypeVariant
  lower_bound, upper_bound, rows_in_cluster, lower_bound_set,
  bin_id,                  \* 0-based, as in the code
  reprocessed,             \* per bin, how often `bin_id--` sent the loop back to it
  optional_value,          \* the argument of _get_cluster_index
  cluster_index,           \* and its result
  \* ClusteringSorter on the chunks of one cluster, among other transactions
  chunks,                  \* the source chunks: per row its tid, begin_cid and end_cid
  invalid_row_count,       \* per source chunk
  last_commit_id,
  transactions,            \* the other transactions: what they do and to which row
  sorter_pc,               \* "none", "created", "recorded", "locking", "executed",
                           \* "unlocking", "rolled_back", "committed", "assert_failed"
  snapshot_commit_id,      \* of the sort_transaction
  _transaction_id, invalid_row_counts, _sorted_table, _num_locks,
  position,                \* <<chunk, offset>> of the row _lock_chunk looks at (1-based)
  unlock_position,         \* the chunk _unlock_all looks at
  execute_failed,
  appended                 \* the rows of the sorted chunks appended to the table

histogram_vars == <<segment, hist, source, slices, op, query, result>>
clustering_vars ==
  <<pc, row_count, num_clusters, nullable, num_null_values, ideal_rows_per_cluster,
    boundaries, lower_bound, upper_bound, rows_in_cluster, lower_bound_set, bin_id,
    reprocessed, optional_value, cluster_index>>
sorter_vars ==
  <<chunks, invalid_row_count, last_commit_id, transactions, sorter_pc, snapshot_commit_id,
    _transaction_id, invalid_row_counts, _sorted_table, _num_locks, position,
    unlock_position, execute_failed, appended>>
vars == <<histogram_vars, clustering_vars, sorter_vars>>

\* AllTypeVariant: NULL_VALUE, or a value
NULL_VALUE == <<>>
Variant(v) == <<v>>
variant_is_null(variant) == variant = NULL_VALUE
NoIndex == [err |-> FALSE, index |-> 0]

\* No cluster is sorted
NoSorter ==
  /\ chunks = <<>> /\ invalid_row_count = <<>> /\ last_commit_id = 0
  /\ transactions = <<>>
  /\ sorter_pc = "none" /\ snapshot_commit_id = 0
  /\ _transaction_id = 0 /\ invalid_row_counts = <<>> /\ _sorted_table = {}
  /\ _num_locks = 0 /\ position = <<1, 1>> /\ unlock_position = 1
  /\ execute_failed = FALSE /\ appended = {}

\* _get_boundaries was not called
NoClustering ==
  /\ pc = "none"
  /\ row_count = 0 /\ num_clusters = 0 /\ nullable = FALSE
  /\ num_null_values = LimbsOf(0, U64Limbs)
  /\ ideal_rows_per_cluster = 0
  /\ boundaries = <<>>
  /\ lower_bound = NULL_VALUE /\ upper_bound = NULL_VALUE
  /\ rows_in_cluster = 0 /\ lower_bound_set = FALSE
  /\ bin_id = 0
  /\ reprocessed = <<>>
  /\ optional_value = NULL_VALUE
  /\ cluster_index = NoIndex

NoQuery == Query("none", NoValue, NoValue)

Built(T, seg, layout, max_bin_count) ==
  /\ segment = seg
  /\ hist = from_segment(layout, T, seg, max_bin_count)
  /\ source = hist
  /\ slices = 0
  /\ op = "from_segment"
  /\ query = NoQuery
  /\ result = B(FALSE)
  /\ NoClustering

\* The equal-distinct-count layout refuses more bins than there are distinct values
EnoughValues(layout, seg, max_bin_count) ==
  layout = "EqualDistinctCount" => max_bin_count <= Cardinality({seg[i] : i \in DOMAIN seg})

InitInt ==
  \E seg \in SegmentsOf("int"), layout \in Layouts, max_bin_count \in 1..MaxBins :
    /\ EnoughValues(layout, seg, max_bin_count)
    /\ Built("int", seg, layout, max_bin_count)
    /\ NoSorter

\* The equal-width layout of strings works on prefixes of StringPrefixLength characters
InitString ==
  \E seg \in SegmentsOf("string"), layout \in Layouts, max_bin_count \in 1..MaxBins :
    /\ EnoughValues(layout, seg, max_bin_count)
    /\ layout = "EqualWidth" => \A i \in DOMAIN seg : Len(seg[i]) <= StringPrefixLength
    /\ Built("string", seg, layout, max_bin_count)
    /\ NoSorter

Init == InitInt \/ InitString

DoesNotContain ==
  /\ op = "from_segment"
  /\ \E q \in QueriesOf(hist.T) :
       /\ query' = q
       /\ result' = does_not_contain(hist, q.predicate_type, q.value, q.value2)
  /\ op' = "does_not_contain"
  /\ UNCHANGED <<segment, hist, source, slices>>
  /\ UNCHANGED <<clustering_vars, sorter_vars>>

EstimateCardinality ==
  /\ op = "from_segment"
  /\ \E q \in QueriesOf(hist.T) :
       /\ query' = q
       /\ result' = estimate_cardinality(hist, q.predicate_type, q.value, q.value2)
  /\ op' = "estimate_cardinality"
  /\ UNCHANGED <<segment, hist, source, slices>>
  /\ UNCHANGED <<clustering_vars, sorter_vars>>

\* A slice of the histogram built from the segment, then the same slice of the result
SliceWithPredicate ==
  /\ op \in {"from_segment", "slice_with_predicate"}
  /\ ~result.err
  /\ slices < MaxSlices
  /\ bin_count(hist) > 0
  /\ \E q \in (IF slices = 0 THEN SliceQueriesOf(hist.T) ELSE {query}) :
       \E oob_distinct_is_one \in (IF q.predicate_type = "NotEquals" THEN BOOLEAN ELSE {FALSE}) :
         \E sliced \in {slice_with_predicate(hist, q.predicate_type, q.value, q.value2,
                                              oob_distinct_is_one)} :
           /\ query' = q
           /\ result' = (IF sliced.err THEN BFail ELSE B(FALSE))
           /\ hist' = (IF sliced.err THEN hist ELSE sliced.hist)
  /\ source' = hist
  /\ slices' = slices + 1
  /\ op' = "slice_with_predicate"
  /\ UNCHANGED segment
  /\ UNCHANGED <<clustering_vars, sorter_vars>>

Next == DoesNotContain \/ EstimateCardinality \/ SliceWithPredicate

Spec == Init /\ [][Next]_vars
SpecInt == InitInt /\ [][Next]_vars
SpecString == InitString /\ [][Next]_vars
\* One operation at a time, on every histogram
SpecDoesNotContain == Init /\ [][DoesNotContain]_vars
SpecEstimateCardinality == Init /\ [][EstimateCardinality]_vars
SpecSliceWithPredicate == Init /\ [][SliceWithPredicate]_vars

\* ------------------------------------------------ DisjointClustersAlgo
\* The histograms of the columns that are clustered: built from up to
\* MaxClusterRows rows
MaxClusterRows == 6
ClusteringSegments ==
  {seg \in UNION {[1..n -> IntValues] : n \in 1..MaxClusterRows} : IsSorted("int", seg)}

InitClustering ==
  \E seg \in ClusteringSegments, layout \in Layouts, max_bin_count \in 2..MaxBins :
    /\ EnoughValues(layout, seg, max_bin_count)
    /\ Built("int", seg, layout, max_bin_count)
    /\ NoSorter

MAX_CLUSTER_SIZE_DIVERGENCE == 2
NullPair == <<NULL_VALUE, NULL_VALUE>>

\* row_count - static_cast<size_t>(histogram->total_count()), and what
\* std::max(num_null_values, size_t{0}) makes of it
NullCount(rows, total) ==
  SubLimbs(LimbsOf(rows, U64Limbs), LimbsOf(total, U64Limbs), U64Limbs)
\* std::max(size_t{1}, (row_count - num_null_values) / num_clusters)
IdealRowsPerCluster(rows, nulls, clusters) ==
  Max2(1, U64ToNat(DivLimbs(SubLimbs(LimbsOf(rows, U64Limbs), nulls, U64Limbs),
                            clusters, U64Limbs)))

\* _get_boundaries up to its bin loop
GetBoundaries ==
  /\ op = "from_segment" /\ pc = "none"
  /\ \E rows \in {n \in (total_count(hist) - 1)..(total_count(hist) + 1) : n > 0},
        clusters \in 1..(bin_count(hist) + 1), null \in BOOLEAN :
       /\ row_count' = rows /\ num_clusters' = clusters /\ nullable' = null
       /\ IF clusters > 1 /\ clusters <= bin_count(hist)
          THEN /\ pc' = "bins"
               /\ num_null_values' = NullCount(rows, total_count(hist))
               /\ boundaries' = (IF null THEN <<NullPair, NullPair>> ELSE <<NullPair>>)
               /\ ideal_rows_per_cluster' =
                    IdealRowsPerCluster(rows, NullCount(rows, total_count(hist)), clusters)
               /\ reprocessed' = [b \in 1..bin_count(hist) |-> 0]
          ELSE /\ pc' = "failed"
               /\ UNCHANGED <<num_null_values, boundaries, ideal_rows_per_cluster, reprocessed>>
  /\ UNCHANGED <<lower_bound, upper_bound, rows_in_cluster, lower_bound_set, bin_id,
                 optional_value, cluster_index>>
  /\ UNCHANGED <<histogram_vars, sorter_vars>>

\* The last boundaries replaced by `pair`
WithBack(bounds, pair) == [bounds EXCEPT ![Len(bounds)] = pair]
\* (The lower edge of the bin itself)
OwnMinimum(bin) ==
  IF bin = bin_count(hist) - 1 THEN NULL_VALUE ELSE Variant(_bin_minimum(hist, bin + 1))
\* bin_minimum(bin_id + 1), or no upper bound after the last bin
UpperBoundAfter(bin) ==
  IF bin = bin_count(hist) - 1 THEN NULL_VALUE ELSE Variant(_bin_minimum(hist, bin + 2))

\* Is the cluster closer to its target size with the bin than without it?
FartherWithBin(rows, bin_size, ideal) == rows + bin_size - ideal > ideal - rows
CloserWithBin(rows, bin_size, ideal) == rows + bin_size - ideal < ideal - rows

\* One pass of the bin loop of _get_boundaries, for the bin `bin_id` (bin
\* bin_id + 1 of the model)
GetBoundariesBin ==
  /\ pc = "bins" /\ bin_id < bin_count(hist)
  /\ LET bin_size == _bin_height(hist, bin_id + 1)
         lower == IF lower_bound_set THEN lower_bound
                  ELSE Variant(_bin_minimum(hist, bin_id + 1))
         not_full == rows_in_cluster + bin_size < ideal_rows_per_cluster
         closer == CloserWithBin(rows_in_cluster, bin_size, ideal_rows_per_cluster)
         again == ~not_full /\ ~closer
         upper == IF again THEN upper_bound ELSE UpperBoundAfter(bin_id)
         is_last_bin == ~again /\ bin_id = bin_count(hist) - 1
     IN IF ~(bin_size < MAX_CLUSTER_SIZE_DIVERGENCE * ideal_rows_per_cluster)
        THEN /\ pc' = "failed"
             /\ UNCHANGED <<boundaries, lower_bound, upper_bound, rows_in_cluster,
                            lower_bound_set, bin_id, reprocessed>>
        ELSE /\ pc' = "bins"
             /\ lower_bound' = lower
             /\ upper_bound' = upper
             /\ rows_in_cluster' = (IF not_full THEN rows_in_cluster + bin_size ELSE 0)
             /\ lower_bound_set' = not_full
             /\ boundaries' =
                  (IF not_full \/ is_last_bin THEN WithBack(boundaries, <<lower, upper>>)
                   ELSE Append(WithBack(boundaries, <<lower, upper>>), NullPair))
             /\ bin_id' = (IF again THEN bin_id - 1 ELSE bin_id) + 1
             /\ reprocessed' =
                  (IF again THEN [reprocessed EXCEPT ![bin_id + 1] = @ + 1] ELSE reprocessed)
  /\ UNCHANGED <<row_count, num_clusters, nullable, num_null_values, ideal_rows_per_cluster,
                 optional_value, cluster_index>>
  /\ UNCHANGED <<histogram_vars, sorter_vars>>

\* Is there a hole after one of the boundaries the code looks at? (0-based
\* `boundary` from 1 on, and not 1 for a nullable column)
HoleBetweenBoundaries ==
  \E boundary \in 1..(Len(boundaries) - 2) :
    /\ ~(nullable /\ boundary = 1)
    /\ boundaries[boundary + 1][2] # boundaries[boundary + 2][1]

\* _get_boundaries after its bin loop
GetBoundariesReturn ==
  /\ pc = "bins" /\ ~(bin_id < bin_count(hist))
  /\ pc' = (IF bin_id = bin_count(hist) /\ ~HoleBetweenBoundaries THEN "returned"
            ELSE "failed")
  /\ UNCHANGED <<row_count, num_clusters, nullable, num_null_values, ideal_rows_per_cluster,
                 boundaries, lower_bound, upper_bound, rows_in_cluster, lower_bound_set,
                 bin_id, reprocessed, optional_value, cluster_index>>
  /\ UNCHANGED <<histogram_vars, sorter_vars>>

\* _get_cluster_index for a value: the boundaries are tried in order, from the
\* 0-based cluster_index `index` on
RECURSIVE ClusterIndexFrom(_, _, _)
ClusterIndexFrom(cluster_boundaries, value, index) ==
  IF index = Len(cluster_boundaries) THEN [err |-> TRUE, index |-> index]
  ELSE LET boundary == cluster_boundaries[index + 1] IN
       IF variant_is_null(boundary[1]) /\ variant_is_null(boundary[2])
       THEN ClusterIndexFrom(cluster_boundaries, value, index + 1)
       ELSE IF variant_is_null(boundary[1]) THEN [err |-> TRUE, index |-> index]
       ELSE IF /\ boundary[1][1] <= value
               /\ (variant_is_null(boundary[2]) \/ value < boundary[2][1])
            THEN [err |-> FALSE, index |-> index]
       ELSE ClusterIndexFrom(cluster_boundaries, value, index + 1)

_get_cluster_index(cluster_boundaries, value) ==
  IF variant_is_null(value) THEN [err |-> FALSE, index |-> 0]
  ELSE ClusterIndexFrom(cluster_boundaries, value[1], 0)

\* The cluster of a value of the column: a null only if the column is nullable
GetClusterIndex ==
  /\ pc = "returned"
  /\ \E value \in {Variant(v) : v \in IntValues} \cup {NULL_VALUE} :
       /\ variant_is_null(value) => nullable
       /\ optional_value' = value
       /\ cluster_index' = _get_cluster_index(boundaries, value)
  /\ pc' = "indexed"
  /\ UNCHANGED <<row_count, num_clusters, nullable, num_null_values, ideal_rows_per_cluster,
                 boundaries, lower_bound, upper_bound, rows_in_cluster, lower_bound_set,
                 bin_id, reprocessed>>
  /\ UNCHANGED <<histogram_vars, sorter_vars>>

NextClustering ==
  GetBoundaries \/ GetBoundariesBin \/ GetBoundariesReturn \/ GetClusterIndex
SpecClustering == InitClustering /\ [][NextClustering]_vars

\* ------------------------------------------------------- ClusteringSorter

SourceChunkCount == 2
SourceChunkSize  == 2
MaxTransactions  == 3

MAX_COMMIT_ID == 1000

\* The sort_transaction and the other transactions
SorterTransaction == 1
OtherTransactions == 2 .. (1 + MaxTransactions)

Row(tid, begin_cid, end_cid) == [tid |-> tid, begin_cid |-> begin_cid, end_cid |-> end_cid]

NoRow == <<0, 0>>

\* The rows of the source chunks
SourceRows == UNION {{<<c, o>> : o \in DOMAIN chunks[c]} : c \in DOMAIN chunks}

RowAt(r) == chunks[r[1]][r[2]]

\* The driver finalizes the chunks of a cluster before it sorts them
NotFinalized == FALSE

SourceChunksAreFinalized == TRUE

\* The partitioner committed the rows of the cluster's chunks
InitSorter ==
  /\ Built("int", <<0>>, "EqualWidth", 1)
  /\ chunks = [c \in 1 .. SourceChunkCount |->
                 [o \in 1 .. SourceChunkSize |-> Row(0, 1, MAX_COMMIT_ID)]]
  /\ invalid_row_count = [c \in 1 .. SourceChunkCount |-> 0]
  /\ last_commit_id = 1
  /\ transactions = [t \in OtherTransactions |-> [state |-> "idle", row |-> NoRow]]
  /\ sorter_pc = "none" /\ snapshot_commit_id = 0
  /\ _transaction_id = 0 /\ invalid_row_counts = <<>> /\ _sorted_table = {}
  /\ _num_locks = 0 /\ position = <<1, 1>> /\ unlock_position = 1
  /\ execute_failed = FALSE /\ appended = {}

SorterPrivate ==
  <<sorter_pc, snapshot_commit_id, _transaction_id, invalid_row_counts, _sorted_table,
    _num_locks, position, unlock_position, execute_failed, appended>>

WithTid(r, tid) == [chunks EXCEPT ![r[1]][r[2]].tid = tid]

\* MvccData::compare_exchange_tid succeeds
CanExchange(r, expected) == RowAt(r).tid = expected

\* Validate::is_row_visible
is_row_visible(our_tid, snapshot, row) ==
  /\ snapshot < row.end_cid
  /\ (snapshot >= row.begin_cid) # (row.tid = our_tid)

\* Delete::_on_execute of another transaction: it locks a row it sees
DeleteExecute(t) ==
  /\ transactions[t].state = "idle"
  /\ \E r \in SourceRows :
       /\ is_row_visible(t, last_commit_id, RowAt(r))
       /\ IF CanExchange(r, 0)
            THEN /\ chunks' = WithTid(r, t)
                 /\ transactions' = [transactions EXCEPT ![t] = [state |-> "deleting", row |-> r]]
            ELSE /\ transactions' = [transactions EXCEPT ![t] = [state |-> "done", row |-> NoRow]]
                 /\ UNCHANGED chunks
  /\ UNCHANGED <<invalid_row_count, last_commit_id, SorterPrivate>>
  /\ UNCHANGED <<histogram_vars, clustering_vars>>

\* Delete::_on_commit_records: the row keeps the transaction's tid
DeleteCommit(t) ==
  /\ transactions[t].state = "deleting"
  /\ LET r == transactions[t].row
     IN  /\ chunks' = [chunks EXCEPT ![r[1]][r[2]].end_cid = last_commit_id + 1]
         /\ invalid_row_count' = [invalid_row_count EXCEPT ![r[1]] = @ + 1]
  /\ last_commit_id' = last_commit_id + 1
  /\ transactions' = [transactions EXCEPT ![t].state = "done"]
  /\ UNCHANGED SorterPrivate
  /\ UNCHANGED <<histogram_vars, clustering_vars>>

\* Delete::_on_rollback_records
DeleteRollback(t) ==
  /\ transactions[t].state = "deleting"
  /\ chunks' = WithTid(transactions[t].row, 0)
  /\ transactions' = [transactions EXCEPT ![t] = [state |-> "done", row |-> NoRow]]
  /\ UNCHANGED <<invalid_row_count, last_commit_id, SorterPrivate>>
  /\ UNCHANGED <<histogram_vars, clustering_vars>>

\* Insert::_on_execute of another transaction: a finalized chunk takes no row
InsertExecute(t) ==
  /\ transactions[t].state = "idle"
  /\ IF SourceChunksAreFinalized
       THEN /\ transactions' = [transactions EXCEPT ![t] = [state |-> "inserting", row |-> NoRow]]
            /\ UNCHANGED chunks
       ELSE LET c == Len(chunks)
            IN  /\ chunks' = [chunks EXCEPT ![c] = Append(@, Row(t, MAX_COMMIT_ID, MAX_COMMIT_ID))]
                /\ transactions' = [transactions EXCEPT
                                      ![t] = [state |-> "inserting", row |-> <<c, Len(chunks[c]) + 1>>]]
  /\ UNCHANGED <<invalid_row_count, last_commit_id, SorterPrivate>>
  /\ UNCHANGED <<histogram_vars, clustering_vars>>

\* Insert::_on_commit_records
InsertCommit(t) ==
  /\ transactions[t].state = "inserting"
  /\ LET r == transactions[t].row
     IN  chunks' = IF r = NoRow THEN chunks
                   ELSE [chunks EXCEPT ![r[1]][r[2]] = Row(0, last_commit_id + 1, MAX_COMMIT_ID)]
  /\ last_commit_id' = last_commit_id + 1
  /\ transactions' = [transactions EXCEPT ![t].state = "done"]
  /\ UNCHANGED <<invalid_row_count, SorterPrivate>>
  /\ UNCHANGED <<histogram_vars, clustering_vars>>

SorterOnly == UNCHANGED <<transactions, histogram_vars, clustering_vars>>

\* The driver creates the sort_transaction: its snapshot is the last commit
NewTransactionContext ==
  /\ sorter_pc = "none"
  /\ sorter_pc' = "created"
  /\ snapshot_commit_id' = last_commit_id
  /\ UNCHANGED <<chunks, invalid_row_count, last_commit_id, _transaction_id,
                 invalid_row_counts, _sorted_table, _num_locks, position, unlock_position,
                 execute_failed, appended>>
  /\ SorterOnly

\* _on_execute, up to the sorting table
RecordInvalidRowCounts ==
  /\ sorter_pc = "created"
  /\ sorter_pc' = "recorded"
  /\ _transaction_id' = SorterTransaction
  /\ invalid_row_counts' = invalid_row_count
  /\ UNCHANGED <<chunks, invalid_row_count, last_commit_id, snapshot_commit_id,
                 _sorted_table, _num_locks, position, unlock_position, execute_failed, appended>>
  /\ SorterOnly

\* _on_execute: Validate and Sort
ValidateAndSort ==
  /\ sorter_pc = "recorded"
  /\ sorter_pc' = "locking"
  /\ _sorted_table' =
       {r \in SourceRows : is_row_visible(_transaction_id, snapshot_commit_id, RowAt(r))}
  /\ position' = <<1, 1>>
  /\ UNCHANGED <<chunks, invalid_row_count, last_commit_id, snapshot_commit_id,
                 _transaction_id, invalid_row_counts, _num_locks, unlock_position,
                 execute_failed, appended>>
  /\ SorterOnly

\* _lock_chunk: one pass of its loop
LockRow ==
  /\ sorter_pc = "locking"
  /\ position[2] <= Len(chunks[position[1]])
  /\ IF RowAt(position).end_cid # MAX_COMMIT_ID
       THEN /\ position' = <<position[1], position[2] + 1>>
            /\ UNCHANGED <<chunks, _num_locks, execute_failed, sorter_pc>>
       ELSE IF CanExchange(position, 0)
         THEN /\ chunks' = WithTid(position, _transaction_id)
              /\ _num_locks' = _num_locks + 1
              /\ position' = <<position[1], position[2] + 1>>
              /\ UNCHANGED <<execute_failed, sorter_pc>>
         ELSE /\ execute_failed' = TRUE
              /\ sorter_pc' = "executed"
              /\ UNCHANGED <<chunks, _num_locks, position>>
  /\ UNCHANGED <<invalid_row_count, last_commit_id, snapshot_commit_id, _transaction_id,
                 invalid_row_counts, _sorted_table, unlock_position, appended>>
  /\ SorterOnly

\* _on_execute: the chunk is locked, its invalid row count is compared
CheckInvalidRowCount ==
  /\ sorter_pc = "locking"
  /\ position[2] > Len(chunks[position[1]])
  /\ IF invalid_row_count[position[1]] # invalid_row_counts[position[1]]
       THEN /\ execute_failed' = TRUE
            /\ sorter_pc' = "executed"
            /\ UNCHANGED position
       ELSE /\ UNCHANGED execute_failed
            /\ IF position[1] = Len(chunks)
                 THEN sorter_pc' = "executed" /\ UNCHANGED position
                 ELSE sorter_pc' = "locking" /\ position' = <<position[1] + 1, 1>>
  /\ UNCHANGED <<chunks, invalid_row_count, last_commit_id, snapshot_commit_id,
                 _transaction_id, invalid_row_counts, _sorted_table, _num_locks,
                 unlock_position, appended>>
  /\ SorterOnly

\* _unlock_chunk
LockedRows(c) == {o \in DOMAIN chunks[c] : chunks[c][o].tid # 0}

OwnRows(c) == {o \in DOMAIN chunks[c] : chunks[c][o].tid = _transaction_id}

\* _on_rollback_records: _unlock_all, one chunk at a time
UnlockChunk ==
  /\ \/ sorter_pc = "executed" /\ execute_failed
     \/ sorter_pc = "unlocking"
  /\ LET c == unlock_position
         locks == _num_locks - Cardinality(OwnRows(c))
     IN  /\ chunks' = [chunks EXCEPT
                         ![c] = [o \in DOMAIN chunks[c] |->
                                   IF o \in OwnRows(c) THEN [chunks[c][o] EXCEPT !.tid = 0]
                                   ELSE chunks[c][o]]]
         /\ _num_locks' = locks
         /\ IF c < Len(chunks)
              THEN sorter_pc' = "unlocking" /\ unlock_position' = c + 1
              ELSE /\ sorter_pc' = IF locks = 0 THEN "rolled_back" ELSE "assert_failed"
                   /\ UNCHANGED unlock_position
  /\ UNCHANGED <<invalid_row_count, last_commit_id, snapshot_commit_id, _transaction_id,
                 invalid_row_counts, _sorted_table, position, execute_failed, appended>>
  /\ SorterOnly

\* _on_commit_records
ValidRows(c) == {o \in DOMAIN chunks[c] : chunks[c][o].end_cid = MAX_COMMIT_ID}

NotLocked == \E r \in SourceRows : r[2] \in ValidRows(r[1]) /\ RowAt(r).tid # _transaction_id

Invalidated(commit_id) ==
  [c \in DOMAIN chunks |->
     [o \in DOMAIN chunks[c] |-> IF o \in ValidRows(c)
                                   THEN [chunks[c][o] EXCEPT !.end_cid = commit_id]
                                   ELSE chunks[c][o]]]

OnCommitRecords ==
  /\ sorter_pc = "executed" /\ ~execute_failed
  /\ IF NotLocked
       THEN /\ sorter_pc' = "assert_failed"
            /\ UNCHANGED <<chunks, invalid_row_count, last_commit_id, appended>>
       ELSE /\ sorter_pc' = "committed"
            /\ chunks' = Invalidated(last_commit_id + 1)
            /\ invalid_row_count' =
                 [c \in DOMAIN chunks |-> invalid_row_count[c] + Cardinality(ValidRows(c))]
            /\ appended' = _sorted_table
            /\ last_commit_id' = last_commit_id + 1
  /\ UNCHANGED <<snapshot_commit_id, _transaction_id, invalid_row_counts, _sorted_table,
                 _num_locks, position, unlock_position, execute_failed>>
  /\ SorterOnly

NextSorter ==
  \/ \E t \in OtherTransactions :
       \/ DeleteExecute(t)
       \/ DeleteCommit(t)
       \/ DeleteRollback(t)
       \/ InsertExecute(t)
       \/ InsertCommit(t)
  \/ NewTransactionContext
  \/ RecordInvalidRowCounts
  \/ ValidateAndSort
  \/ LockRow
  \/ CheckInvalidRowCount
  \/ UnlockChunk
  \/ OnCommitRecords

SpecSorter == InitSorter /\ [][NextSorter]_vars

\* ------------------------------------------------------------------ claims
\* The arguments and the outcome of the last call
Called(name, predicate_type) ==
  op = name /\ query.predicate_type = predicate_type /\ ~result.err
RowsMatching == MatchingRows(hist.T, segment, query.predicate_type, query.value, query.value2)
\* Is v in no bin, between the first and the last bin?
InGap(h, v) ==
  /\ _bin_for_value(h, v) = INVALID_BIN_ID
  /\ Less(h.T, minimum(h), v) /\ Less(h.T, v, maximum(h))

C2_NotLikePruningIsSound ==
  (Called("does_not_contain", "NotLike") /\ result.val) => RowsMatching = 0

\* The prefix of a pattern before its first '%'
PrefixOf(pattern) == SubStr(pattern, 0, FindPercent(pattern))
StartsWith(str, prefix) == SubStr(str, 0, Len(prefix)) = prefix
\* A Like pattern that starts with a character other than a wildcard and has a '%'
IsPrefixPattern(pattern) ==
  /\ pattern # <<>>
  /\ Head(pattern) \notin {PercentChar, UnderscoreChar}
  /\ FindPercent(pattern) < Len(pattern)

\* C3: whenever does_not_contain returns true for a Like pattern that starts with a
\* non-wildcard character and contains '%', no stored string starts with the prefix
\* before the first '%', and so no row matches the pattern.
C3_LikePruningIsSound ==
  (/\ Called("does_not_contain", "Like") /\ result.val
   /\ IsPrefixPattern(query.value))
  => /\ \A i \in DOMAIN segment : ~StartsWith(segment[i], PrefixOf(query.value))
     /\ RowsMatching = 0

\* C3 happens: a prefix pattern is pruned although the prefix lies above the minimum
\* and the next value of the prefix does not lie above the maximum.
C3_Witness ==
  /\ Called("does_not_contain", "Like") /\ result.val
  /\ IsPrefixPattern(query.value)
  /\ StrLess(minimum(hist), PrefixOf(query.value))
  /\ StrLess(next_value_str(PrefixOf(query.value), Len(PrefixOf(query.value))), maximum(hist))

\* C4: the count that estimate_cardinality returns lies between 0 and total_count().
C4_EstimateIsBounded ==
  (op = "estimate_cardinality" /\ ~result.err)
  => CNonNegative(result.first) /\ CAtMost(result.first, total_count(hist))

\* C5: the counts estimated for Equals v and for NotEquals v add up to total_count().
C5_ComplementIdentity ==
  Called("estimate_cardinality", "Equals")
  => LET not_equals == estimate_cardinality(hist, "NotEquals", query.value, NoValue)
     IN /\ ~not_equals.err
        /\ CEq(CAdd(result.first, not_equals.first), CInt(hist.total))

\* C5 happens: Equals is estimated for a value in a gap between two bins.
C5_Witness ==
  Called("estimate_cardinality", "Equals") /\ InGap(hist, query.value)

NextValueOf(T, v) == IF T = "string" THEN next_value_str(v, Len(v) + 1) ELSE next_value_int(v)

\* C7: the count estimated for LessThanEquals v is the count estimated for LessThan
\* next_value(v).
C7_LessThanEqualsIsLessThanNext ==
  Called("estimate_cardinality", "LessThanEquals")
  => LET lt == estimate_cardinality(hist, "LessThan", NextValueOf(hist.T, query.value), NoValue)
     IN ~lt.err /\ CEq(result.first, lt.first)

\* C7 happens: LessThanEquals is estimated for the largest integer, whose next value
\* is itself.
C7_Witness ==
  /\ Called("estimate_cardinality", "LessThanEquals")
  /\ hist.T = "int" /\ query.value = MaxValue

\* Do two strings agree on their first StringPrefixLength characters?
SamePrefix(v1, v2) == SubStr(v1, 0, StringPrefixLength) = SubStr(v2, 0, StringPrefixLength)
\* The count estimated for GreaterThan v2 is the one just estimated
SameGreaterThan(v2) ==
  LET other == estimate_cardinality(hist, "GreaterThan", v2, NoValue)
  IN ~other.err /\ CEq(result.first, other.first)

ShortEdges(h) ==
  \A b \in 1..bin_count(h) :
    Len(_bin_minimum(h, b)) <= StringPrefixLength /\ Len(_bin_maximum(h, b)) <= StringPrefixLength
\* The edges of a bin are equal or start with different characters
NoCommonPrefix(h) ==
  \A b \in 1..bin_count(h) :
    \/ _bin_minimum(h, b) = _bin_maximum(h, b)
    \/ common_prefix_length(_bin_minimum(h, b), _bin_maximum(h, b)) = 0

SameBins(h1, h2) ==
  /\ h1.minima = h2.minima /\ h1.maxima = h2.maxima
  /\ h1.heights = h2.heights /\ h1.distincts = h2.distincts

\* C9: the slice for LessThan v of a slice for LessThan v succeeds and has the bins
\* of the first slice.
C9_SliceLessThanTwice ==
  (op = "slice_with_predicate" /\ slices >= 2 /\ query.predicate_type = "LessThan")
  => ~result.err /\ SameBins(hist, source)

\* C9 happens: the second slice for LessThan v was taken of a histogram whose last
\* bin the first slice had cut at v, dropping rows.
C9_Witness ==
  /\ op = "slice_with_predicate" /\ slices = 2 /\ query.predicate_type = "LessThan"
  /\ ~result.err
  /\ source.layout = "Generic" /\ maximum(source) = query.value
  /\ \A i \in DOMAIN segment : segment[i] # query.value
  /\ total_count(source) < Len(segment)

\* C10: on a histogram of strings, does_not_contain and estimate_cardinality return
\* a result, not an error, for every Like and NotLike pattern of supported characters
\* and wildcards.
C10_PatternsNeverFail ==
  (/\ op \in {"does_not_contain", "estimate_cardinality"}
   /\ hist.T = "string"
   /\ query.predicate_type \in {"Like", "NotLike"})
  => ~result.err

\* Does a search value hold a character that is neither supported nor a wildcard?
HasUnsupported(value) ==
  \E i \in DOMAIN value :
    /\ value[i] \notin {PercentChar, UnderscoreChar}
    /\ \A k \in DOMAIN SupportedCharacters : value[i] # SupportedCharacters[k]

\* C11: on a histogram of strings, does_not_contain and estimate_cardinality fail
\* for a value with a character outside the supported set, and a value of
\* supported characters and wildcards is accepted (no failure) if and only if the
\* predicate is Like or NotLike.
C11_CharacterValidation ==
  (hist.T = "string" /\ op \in {"does_not_contain", "estimate_cardinality"})
  => /\ HasUnsupported(query.value) => result.err
     /\ (contains_wildcard(query.value) /\ ~HasUnsupported(query.value))
        => (~result.err <=> query.predicate_type \in {"Like", "NotLike"})

\* Does does_not_contain return true for the arguments of the last call?
PrunesLastQuery ==
  LET pruned == does_not_contain(hist, query.predicate_type, query.value, query.value2)
  IN ~pruned.err /\ pruned.val

\* C12: whenever does_not_contain is true for the arguments of a call of
\* estimate_cardinality, the estimate is exactly (0, true), whatever the predicate.
C12_PrunedEstimateIsZero ==
  (op = "estimate_cardinality" /\ PrunesLastQuery)
  => /\ ~result.err
     /\ IsPlain(result.first) /\ result.first.n = 0
     /\ result.second

\* C12 happens: a Like pattern with a prefix that no stored string can start with
\* is estimated.
C12_Witness ==
  /\ Called("estimate_cardinality", "Like") /\ hist.T = "string"
  /\ IsPrefixPattern(query.value)
  /\ PrunesLastQuery

\* The order of the values, spelled out: numbers by size, strings character by
\* character with a proper prefix first
RECURSIVE LexLess(_, _)
LexLess(a, b) ==
  IF b = <<>> THEN FALSE
  ELSE IF a = <<>> THEN TRUE
  ELSE IF Head(a) # Head(b) THEN Head(a) < Head(b)
  ELSE LexLess(Tail(a), Tail(b))
Below(T, a, b) == IF T = "int" THEN a < b ELSE LexLess(a, b)
NotAbove(T, a, b) == a = b \/ Below(T, a, b)
\* The lower edge of the first bin and the upper edge of the last bin
LowestEdge(h) == h.minima[1]
HighestEdge(h) == h.maxima[Len(h.maxima)]

\* C13: does_not_contain is true for LessThan v iff v <= minimum(), for
\* LessThanEquals v iff v < minimum(), for GreaterThanEquals v iff v > maximum(),
\* for GreaterThan v iff v >= maximum(), on numbers and on strings of any length.
C13_RangePruningAtTheEdges ==
  /\ Called("does_not_contain", "LessThan")
       => (result.val <=> NotAbove(hist.T, query.value, LowestEdge(hist)))
  /\ Called("does_not_contain", "LessThanEquals")
       => (result.val <=> Below(hist.T, query.value, LowestEdge(hist)))
  /\ Called("does_not_contain", "GreaterThanEquals")
       => (result.val <=> Below(hist.T, HighestEdge(hist), query.value))
  /\ Called("does_not_contain", "GreaterThan")
       => (result.val <=> NotAbove(hist.T, HighestEdge(hist), query.value))

\* C13 happens: LessThan is pruned for a string longer than the prefix length that
\* is the minimum of a first bin spanning several values.
C13_Witness ==
  /\ Called("does_not_contain", "LessThan") /\ hist.T = "string"
  /\ Len(query.value) > StringPrefixLength
  /\ query.value = LowestEdge(hist) /\ hist.maxima[1] # LowestEdge(hist)
  /\ result.val

\* The bins whose edges enclose v
BinsHolding(h, v) ==
  {b \in DOMAIN h.minima : NotAbove(h.T, h.minima[b], v) /\ NotAbove(h.T, v, h.maxima[b])}

\* C14: does_not_contain is true for Equals v iff v lies in no bin, or the bin that
\* holds v has height 0.
C14_EqualsPruning ==
  Called("does_not_contain", "Equals")
  => (result.val <=> \A b \in BinsHolding(hist, query.value) : hist.heights[b] = 0)

\* C14 happens: Equals is pruned for a value inside an empty bin.
C14_Witness ==
  /\ Called("does_not_contain", "Equals") /\ result.val
  /\ \E b \in BinsHolding(hist, query.value) : hist.heights[b] = 0

\* Do v and v2 lie in one gap between two neighbouring bins?
InOneGap(h, v, v2) ==
  \E b \in 1..(Len(h.minima) - 1) :
    /\ Below(h.T, h.maxima[b], v) /\ Below(h.T, v, h.minima[b + 1])
    /\ Below(h.T, h.maxima[b], v2) /\ Below(h.T, v2, h.minima[b + 1])
\* Do v and v2 lie in bins of height 0 with only bins of height 0 between them?
InEmptyBins(h, v, v2) ==
  \E b \in BinsHolding(h, v), b2 \in BinsHolding(h, v2) :
    \A c \in DOMAIN h.heights : (b <= c /\ c <= b2) => h.heights[c] = 0

\* C15: does_not_contain is true for Between v and v2 if v2 < v, or v > maximum(),
\* or v2 < minimum(), or both lie in one gap between bins, or both lie in empty bins
\* with only empty bins between them; otherwise it is false.
C15_BetweenPruning ==
  Called("does_not_contain", "Between")
  => (result.val <=>
        \/ Below(hist.T, query.value2[1], query.value)
        \/ Below(hist.T, HighestEdge(hist), query.value)
        \/ Below(hist.T, query.value2[1], LowestEdge(hist))
        \/ InOneGap(hist, query.value, query.value2[1])
        \/ InEmptyBins(hist, query.value, query.value2[1]))

\* C15 happens: Between is pruned for two values in two different empty bins.
C15_Witness ==
  /\ Called("does_not_contain", "Between") /\ result.val
  /\ \E b \in BinsHolding(hist, query.value), b2 \in BinsHolding(hist, query.value2[1]) :
       b < b2 /\ hist.heights[b] = 0 /\ hist.heights[b2] = 0

\* Does K^e fit in 64 bits?
FitsIn64Bits(e) ==
  LET w == PowLimbs(LimbsOf(K, WideLimbs), e, WideLimbs)
  IN \A i \in (U64Limbs + 1)..WideLimbs : w[i] = 0
\* floor(log_K(2^64 - 1)): the largest e with K^e <= 2^64 - 1
RECURSIVE FloorLogFrom(_)
FloorLogFrom(e) == IF FitsIn64Bits(e + 1) THEN FloorLogFrom(e + 1) ELSE e
FloorLog == FloorLogFrom(0)
\* The fixed characters counted for a pattern: those after the prefix before the
\* first '%' (all of them when the pattern starts with '%')
FixedCharacters(pattern) ==
  Len(pattern) - FindPercent(pattern) - CountChar(pattern, PercentChar)

\* C16: for a Like pattern with '%' and without '_' that is not pruned, the
\* estimate is divided by K^e with e the smaller of the number of fixed characters
\* and floor(log_K(2^64 - 1)), a power that fits in 64 bits.
C16_DivisorSaturates ==
  (/\ Called("estimate_cardinality", "Like") /\ hist.T = "string"
   /\ CountChar(query.value, PercentChar) > 0
   /\ CountChar(query.value, UnderscoreChar) = 0
   /\ query.value # <<PercentChar>>
   /\ ~PrunesLastQuery)
  => result.first.div = ipow(K, Min2(FixedCharacters(query.value), FloorLog))

\* Does the predicate hold of every value that the bins of h stand for?
MatchesEveryValue(h, predicate_type, value, value2) ==
  CASE predicate_type = "Equals" -> minimum(h) = value /\ maximum(h) = value
    [] predicate_type = "NotEquals" -> BinsHolding(h, value) = {}
    [] predicate_type = "LessThan" -> Less(h.T, maximum(h), value)
    [] predicate_type = "LessThanEquals" -> LessEq(h.T, maximum(h), value)
    [] predicate_type = "GreaterThan" -> Less(h.T, value, minimum(h))
    [] predicate_type = "GreaterThanEquals" -> LessEq(h.T, value, minimum(h))
    [] predicate_type = "Between" ->
         value2 # NoValue /\ LessEq(h.T, value, minimum(h)) /\ LessEq(h.T, maximum(h), value2[1])
    [] OTHER -> FALSE
\* A range predicate whose value lies beyond the edge of h on the matching side
\* (for Between: on both sides)
BeyondTheEdge(h, predicate_type, value, value2) ==
  \/ predicate_type \in {"LessThan", "LessThanEquals"} /\ Less(h.T, maximum(h), value)
  \/ predicate_type \in {"GreaterThan", "GreaterThanEquals"} /\ Less(h.T, value, minimum(h))
  \/ /\ predicate_type = "Between" /\ value2 # NoValue
     /\ Less(h.T, value, minimum(h)) /\ Less(h.T, maximum(h), value2[1])
Sliced == op = "slice_with_predicate" /\ ~result.err

C17_GenericWitness ==
  /\ Sliced /\ slices = 1 /\ query.predicate_type = "LessThanEquals"
  /\ query.value = maximum(source) /\ SameBins(hist, source) /\ hist # source

\* What does_not_contain says of the source about the latest slice
PrunesLastSlice ==
  does_not_contain(source, query.predicate_type, query.value, query.value2)
SlicingPredicates ==
  {"Equals", "NotEquals", "LessThan", "LessThanEquals", "GreaterThan", "GreaterThanEquals",
   "Between"}

\* C18: slice_with_predicate fails whenever does_not_contain is true of the same
\* arguments; when it is false and the predicate is Equals, NotEquals, a range
\* predicate or Between, the slice is a histogram with at least one bin.
C18_SliceFailsIffPruned ==
  op = "slice_with_predicate" =>
    LET Slice(pruned) ==
          /\ (~pruned.err /\ pruned.val) => result.err
          /\ (~pruned.err /\ ~pruned.val /\ query.predicate_type \in SlicingPredicates)
               => ~result.err /\ bin_count(hist) >= 1
    IN Slice(PrunesLastSlice)

\* The invariants of the bins of a histogram
BinIsSound(h, b) ==
  /\ LessEq(h.T, _bin_minimum(h, b), _bin_maximum(h, b))
  /\ _bin_distinct_count(h, b) <= _bin_height(h, b)
  /\ _bin_height(h, b) > 0 => _bin_distinct_count(h, b) >= 1
BinsAscend(h) ==
  \A b \in 1..(bin_count(h) - 1) : Less(h.T, _bin_maximum(h, b), _bin_minimum(h, b + 1))

\* C19: every histogram returned by slice_with_predicate has sound bins (min <= max,
\* distinct <= height, distinct >= 1 when height > 0) in ascending order, and counts
\* no more rows than its source.
C19_SliceKeepsInvariants ==
  Sliced =>
    /\ \A b \in 1..bin_count(hist) : BinIsSound(hist, b)
    /\ BinsAscend(hist)
    /\ total_count(hist) <= total_count(source)

\* A sequence without its b-th element, and the bins of h without bin b
RemoveAt(seq, b) == SubSeq(seq, 1, b - 1) \o SubSeq(seq, b + 1, Len(seq))
WithoutBin(h, b) ==
  /\ hist.minima = RemoveAt(h.minima, b) /\ hist.maxima = RemoveAt(h.maxima, b)
  /\ hist.heights = RemoveAt(h.heights, b) /\ hist.distincts = RemoveAt(h.distincts, b)
\* The bins of h with one distinct value and value_count rows taken out of bin b
WithoutValue(h, b, value_count) ==
  /\ hist.minima = h.minima /\ hist.maxima = h.maxima
  /\ hist.heights = [h.heights EXCEPT ![b] = @ - value_count]
  /\ hist.distincts = [h.distincts EXCEPT ![b] = @ - 1]

\* C20: the slice for NotEquals v with v in bin b has the other bins of the source
\* unchanged and in order; bin b keeps its edges, loses one distinct value and
\* ceil(cardinality of Equals v) rows, and is left out when it had one distinct value.
C20_SliceNotEquals ==
  (Sliced /\ query.predicate_type = "NotEquals" /\ BinsHolding(source, query.value) # {}) =>
    LET Slice(b, estimate_pair) ==
          IF _bin_distinct_count(source, b) = 1 THEN WithoutBin(source, b)
          ELSE WithoutValue(source, b, CCeil(estimate_pair.first))
    IN Slice(_bin_for_value(source, query.value),
             estimate_cardinality(source, "Equals", query.value, NoValue))

\* The bins of the latest slice are the first k bins of h
FirstBins(h, k) ==
  /\ hist.minima = SubSeq(h.minima, 1, k) /\ hist.maxima = SubSeq(h.maxima, 1, k)
  /\ hist.heights = SubSeq(h.heights, 1, k) /\ hist.distincts = SubSeq(h.distincts, 1, k)
\* ... the first b bins, the last of them cut at value with share s
FirstBinsCutAt(h, b, value, s) ==
  /\ hist.minima = SubSeq(h.minima, 1, b)
  /\ hist.maxima = [SubSeq(h.maxima, 1, b) EXCEPT ![b] = value]
  /\ hist.heights = [SubSeq(h.heights, 1, b) EXCEPT ![b] = CCeil(CMulInt(s, h.heights[b]))]
  /\ hist.distincts = [SubSeq(h.distincts, 1, b) EXCEPT ![b] = CCeil(CMulInt(s, h.distincts[b]))]
\* How many bins of h lie at or below value
BinsAtOrBelow(h, value) ==
  Cardinality({b \in 1..bin_count(h) : LessEq(h.T, _bin_maximum(h, b), value)})
StrictlyInside(h, b, value) ==
  Less(h.T, _bin_minimum(h, b), value) /\ Less(h.T, value, _bin_maximum(h, b))

\* C21: the slice for LessThan(Equals) v with v strictly inside bin b is the bins
\* before b followed by [min(b), v] with ceil(height(b) * s) rows and
\* ceil(distinct(b) * s) distinct values, s being share(b, v) for LessThan and
\* share(b, next_value(v)) for LessThanEquals; with v in a gap or on max(b) it is the
\* bins at or below v, whole; for LessThan with v = min(b) bin b is left out.
C21_SliceLessThan ==
  (/\ Sliced /\ query.predicate_type \in {"LessThan", "LessThanEquals"}
   /\ LessEq(source.T, query.value, maximum(source))) =>
    LET v == query.value
        bound == IF query.predicate_type = "LessThan" THEN v ELSE _get_next_value(source.T, v)
        Slice(b) ==
          IF b = INVALID_BIN_ID THEN FirstBins(source, BinsAtOrBelow(source, v))
          ELSE IF query.predicate_type = "LessThan" /\ v = _bin_minimum(source, b)
               THEN FirstBins(source, b - 1)
          ELSE IF v = _bin_maximum(source, b) THEN FirstBins(source, b)
          ELSE IF StrictlyInside(source, b, v)
               THEN FirstBinsCutAt(source, b, v, _share_of_bin_less_than_value(source, b, bound))
          ELSE TRUE
    IN Slice(_bin_for_value(source, v))

\* C21 happens: a bin was cut strictly inside and lost rows
C21_Witness ==
  /\ Sliced /\ query.predicate_type \in {"LessThan", "LessThanEquals"} /\ slices = 1
  /\ _bin_for_value(source, query.value) = bin_count(hist)
  /\ StrictlyInside(source, bin_count(hist), query.value)
  /\ hist.heights[bin_count(hist)] < source.heights[bin_count(hist)]
  /\ bin_count(hist) < bin_count(source)

\* C22: the slice for Between v and v2 is the slice for LessThanEquals v2 of the
\* slice for GreaterThanEquals v, and when does_not_contain(Between, v, v2) is false
\* of the source neither of the two slices fails.
C22_BetweenIsComposed ==
  (op = "slice_with_predicate" /\ query.predicate_type = "Between") =>
    LET Composed(pruned, gte) ==
          (~pruned.err /\ ~pruned.val) =>
            /\ ~gte.err
            /\ LET Second(lte) == ~lte.err /\ ~result.err /\ hist = lte.hist
               IN Second(slice_with_predicate(IF gte.err THEN source ELSE gte.hist,
                                              "LessThanEquals", query.value2[1], NoValue, FALSE))
    IN Composed(PrunesLastSlice,
                slice_with_predicate(source, "GreaterThanEquals", query.value, NoValue, FALSE))

\* C22 happens: both steps dropped bins of a histogram built from a segment
C22_Witness ==
  /\ Sliced /\ query.predicate_type = "Between" /\ slices = 1
  /\ Less(source.T, minimum(source), minimum(hist))
  /\ Less(source.T, maximum(hist), maximum(source))
  /\ bin_count(hist) >= 1 /\ bin_count(hist) + 2 <= bin_count(source)

\* The rows of the bins of h that lie wholly below value
HeightsBelow(h, value) ==
  SumSeq(SubSeq(h.heights, 1,
                Cardinality({b \in 1..bin_count(h) : Less(h.T, _bin_maximum(h, b), value)})))

\* C23: for LessThan v with minimum() < v <= maximum(), the estimate is the sum of
\* the heights of the bins below v, and certain, when v is in a gap; when v is in bin
\* b it is the heights of the bins before b plus share(b, v) * height(b), at most
\* total_count(), and not certain.
C23_EstimateLessThan ==
  (/\ Called("estimate_cardinality", "LessThan")
   /\ Less(hist.T, minimum(hist), query.value)
   /\ LessEq(hist.T, query.value, maximum(hist))) =>
    LET Estimate(b) ==
          IF b = INVALID_BIN_ID
          THEN CEq(result.first, CInt(HeightsBelow(hist, query.value))) /\ result.second
          ELSE /\ CEq(result.first,
                      CMin(CAdd(CMulInt(_share_of_bin_less_than_value(hist, b, query.value),
                                        _bin_height(hist, b)),
                                CInt(SumSeq(SubSeq(hist.heights, 1, b - 1)))),
                           CInt(total_count(hist))))
               /\ ~result.second
    IN Estimate(_bin_for_value(hist, query.value))

\* C23 happens: a value in a gap with rows below it, and a value inside a later bin
\* of which only a part of the rows counts
C23_Witness ==
  /\ Called("estimate_cardinality", "LessThan") /\ InGap(hist, query.value)
  /\ result.second /\ CEq(result.first, CInt(HeightsBelow(hist, query.value)))
  /\ HeightsBelow(hist, query.value) > 0
C23_InsideWitness ==
  /\ Called("estimate_cardinality", "LessThan")
  /\ _bin_for_value(hist, query.value) > 1
  /\ Less(hist.T, _bin_minimum(hist, _bin_for_value(hist, query.value)), query.value)
  /\ ~result.second

\* C24: when the total_count() of the histogram exceeds the row_count of the table,
\* the null count _get_boundaries works with is zero, for nullable and for
\* non-nullable columns.
C24_NullCountIsClamped ==
  (pc = "bins" /\ total_count(hist) > row_count) => U64IsZero(num_null_values)

\* C25: the slice for NotEquals v with v in no bin (and NotEquals not pruned) has
\* exactly the bins of the source: nothing read through the invalid bin id can
\* change it.
C25_NotEqualsOfNoBin ==
  (Sliced /\ query.predicate_type = "NotEquals" /\ BinsHolding(source, query.value) = {})
    => SameBins(hist, source)

\* Every bin is smaller than twice the rows a cluster should have
AllBinsAreSmall ==
  \A b \in 1..bin_count(hist) :
    _bin_height(hist, b) < MAX_CLUSTER_SIZE_DIVERGENCE * ideal_rows_per_cluster
InGetBoundaries == pc \in {"bins", "returned", "indexed"}
\* The passes of the bin loop so far
Passes == bin_id + SumSeq(reprocessed)

\* C26: in the bin loop of _get_boundaries a bin is processed again at most once,
\* and only when the cluster already holds rows: bin_id is never decremented at 0,
\* the loop makes at most 2 * bin_count() passes, and when every bin is below twice
\* the ideal rows per cluster it ends with bin_id = bin_count(), without a failure.
C26_BinLoopTerminates ==
  /\ [](InGetBoundaries =>
          /\ \A b \in 1..bin_count(hist) : reprocessed[b] <= 1
          /\ reprocessed[1] = 0
          /\ bin_id <= bin_count(hist) /\ Passes <= 2 * bin_count(hist)
          /\ pc \in {"returned", "indexed"} => bin_id = bin_count(hist))
  /\ []((pc = "failed" /\ ideal_rows_per_cluster > 0) => ~AllBinsAreSmall)
  /\ [][(pc = "bins" /\ reprocessed' # reprocessed) => rows_in_cluster > 0]_vars

\* C26 happens: the loop ended after it went back to a bin
C26_Witness ==
  /\ pc = "returned" /\ bin_id = bin_count(hist)
  /\ \E b \in 1..bin_count(hist) : reprocessed[b] = 1

\* The boundaries of the clusters of non-null values (1-based positions)
FirstValueCluster == IF nullable THEN 2 ELSE 1
ValueClusters == FirstValueCluster..Len(boundaries)
\* Is v in the half-open range of the boundaries at position i?
InCluster(i, v) ==
  /\ ~variant_is_null(boundaries[i][1]) /\ boundaries[i][1][1] <= v
  /\ variant_is_null(boundaries[i][2]) \/ v < boundaries[i][2][1]

\* C27: the boundaries that _get_boundaries returns for the non-null values are
\* half-open ranges, each ending where the next begins, the first beginning at
\* minimum() and the last without an upper bound; _get_cluster_index finds exactly
\* one of them for every value >= minimum(), without failing, and cluster 0 for null.
C27_BoundariesCoverTheValues ==
  (pc \in {"returned", "indexed"}) =>
    /\ nullable => boundaries[1] = NullPair
    /\ boundaries[FirstValueCluster][1] = Variant(minimum(hist))
    /\ variant_is_null(boundaries[Len(boundaries)][2])
    /\ \A i \in ValueClusters \ {Len(boundaries)} :
         /\ ~variant_is_null(boundaries[i][2])
         /\ boundaries[i][2] = boundaries[i + 1][1]
         /\ boundaries[i][1][1] < boundaries[i][2][1]
    /\ \A v \in IntValues :
         v >= minimum(hist) =>
           /\ Cardinality({i \in ValueClusters : InCluster(i, v)}) = 1
           /\ LET Found(found) == ~found.err /\ InCluster(found.index + 1, v)
              IN Found(_get_cluster_index(boundaries, Variant(v)))
    /\ pc = "indexed" =>
         /\ variant_is_null(optional_value) => cluster_index = [err |-> FALSE, index |-> 0]
         /\ (~variant_is_null(optional_value) /\ optional_value[1] >= minimum(hist))
              => ~cluster_index.err

\* C27 happens: a value was found in a cluster that is neither the first nor the
\* last of a nullable column
C27_Witness ==
  /\ pc = "indexed" /\ nullable /\ ~variant_is_null(optional_value)
  /\ ~cluster_index.err
  /\ cluster_index.index > 1 /\ cluster_index.index + 1 < Len(boundaries)

\* The rows of the source chunks that the sorter invalidated: it keeps its locks
InvalidatedBySorter ==
  {r \in SourceRows : RowAt(r).tid = _transaction_id /\ RowAt(r).end_cid # MAX_COMMIT_ID}

\* C28: when a ClusteringSorter has committed, the rows it appended in the
\* sorted chunks are exactly the rows of its source chunks that it invalidated,
\* whatever the other transactions did in between: a row deleted by another
\* transaction does not come back and no valid row is lost.
C28_SortPreservesVisibleRows ==
  sorter_pc = "committed" => appended = InvalidatedBySorter

\* The sort_transaction is about to commit or has committed
ExecuteSucceeded == sorter_pc = "executed" /\ ~execute_failed

DeletedByOthers ==
  {r \in SourceRows : RowAt(r).tid \in OtherTransactions /\ RowAt(r).end_cid # MAX_COMMIT_ID}

\* C29: when execute was not marked as failed, _on_commit_records finds every
\* still valid row of the source chunks locked by the sorter, whatever deleting
\* and inserting transactions did meanwhile (its Assert never fails), and after
\* the commit the invalid row count of every source chunk equals its size.
C29_CommitFindsEveryRowLocked ==
  /\ ExecuteSucceeded => ~NotLocked
  /\ sorter_pc = "assert_failed" => execute_failed
  /\ sorter_pc = "committed" =>
       \A c \in DOMAIN chunks : /\ invalid_row_count[c] = Len(chunks[c])
                                /\ ValidRows(c) = {}

C29_Witness ==
  /\ sorter_pc = "committed"
  /\ DeletedByOthers # {}
  /\ InvalidatedBySorter # {}
  /\ \E t \in OtherTransactions : transactions[t].state = "inserting"

\* A step of _unlock_all
Unlocks ==
  /\ execute_failed
  /\ sorter_pc \in {"executed", "unlocking"}
  /\ <<sorter_pc, unlock_position>>' # <<sorter_pc, unlock_position>>

HeldBySorter == {r \in SourceRows : RowAt(r).tid = _transaction_id}

HeldByOthers ==
  {r \in SourceRows : RowAt(r).tid \in OtherTransactions /\ RowAt(r).end_cid = MAX_COMMIT_ID}

\* C30: after _on_rollback_records, wherever execute failed, no row of the
\* source chunks carries the sorter's transaction id and _num_locks is 0 (the
\* Assert of _unlock_all holds), and no step of the unlocking changes a row
\* that another transaction holds.
C30_RollbackReleasesOwnLocks ==
  /\ [](sorter_pc = "rolled_back" => HeldBySorter = {} /\ _num_locks = 0)
  /\ [](sorter_pc = "assert_failed" => ~execute_failed)
  /\ [][Unlocks => \A r \in SourceRows :
                     RowAt(r).tid # _transaction_id => chunks'[r[1]][r[2]] = RowAt(r)]_vars

\* Execute failed at a row of the second chunk that another transaction holds,
\* after the first chunk was locked
C30_Witness ==
  /\ sorter_pc = "rolled_back"
  /\ position[1] = 2 /\ position[2] <= Len(chunks[2])
  /\ position \in HeldByOthers
  /\ \E o \in ValidRows(1) : chunks[1][o].tid = 0

\* Execute failed at the invalid row count of the second chunk
C30_CountWitness ==
  /\ sorter_pc = "rolled_back"
  /\ position[1] = 2 /\ position[2] > Len(chunks[2])
  /\ invalid_row_count[2] # invalid_row_counts[2]
  /\ \E o \in ValidRows(1) : chunks[1][o].tid = 0

====
